---- MODULE Spec2Model ----
(***************************************************************************)
(* Reactive signal graph of react-native-css-interop                       *)
(* (runtime/native/variables.ts, "signals" section) together with the      *)
(* part of flattenStyle that decides which Signals a style Computation     *)
(* reads.                                                                  *)
(*                                                                         *)
(* The JavaScript is single threaded and the propagation is a recursion    *)
(* set -> stale -> Computation.stale -> execute -> set ...  The recursion  *)
(* is modelled with an explicit call stack: one action per statement       *)
(* group of each function, so that the states in the middle of a           *)
(* propagation are states of the model.                                    *)
(***************************************************************************)
EXTENDS Integers, Sequences, FiniteSets, TLC

\* ---------------------------------------------------------------- bounds
\* The plain Signal R holds 0..MaxVal (S holds 0 or 1).
MaxVal == 2
\* Effective top-level set() calls in one synchronous task.
MaxBurst == 2

\* ------------------------------------------------------------- constants
\* createSignal<unknown>(undefined): value of a Computation before its
\* first execution.
Undefined == -1
\* An entry of a JS Set that was deleted while the Set may be iterated.
Empty == "empty"
\* fn of a Computation that has not been created.
NoFn == "none"
\* No exception has been thrown.
NoError == "none"
\* interopFunctions has no entry for the component.
NoConfig == << >>
\* useMemo has not run: no dependency array is stored, no Computation made.
NoMemo == [ref |-> 0, comp |-> NoFn]

\* ---------------------------------------------------------------- nodes
\* The Signals of one CSS variable (--gap): the light and dark Signal of its
\* default scope, and its Signal in the root, a parent and a child context.
VarSignals == {"rootVar", "parentVar", "childVar"}
PlainSignals ==
  {"R", "S", "hover", "vh", "colorScheme", "defLight", "defDark",
   "layoutWidth"}
    \cup VarSignals
Comps ==
  {"A", "B", "C", "D", "E", "F", "G", "H", "L", "M1", "M2", "U", "V", "X",
   "Z"}
Nodes == PlainSignals \cup Comps
Callbacks == {"cb1"}

\* Client programs.  Each one names the Computations it creates (with the
\* function each tracks), the Signals it writes and where it subscribes
\* plain callbacks.
Scenarios ==
  {"diamond", "burst", "dyn", "flat", "chain", "direct", "cascade", "quiet",
   "config", "render", "lazy", "update", "root", "styled"}

PlanOf(sc) ==
  CASE sc = "diamond" -> [A |-> "idR", B |-> "halfR", C |-> "sumAB"]
    [] sc = "burst"   -> [E |-> "sumRS"]
    [] sc = "dyn"     -> [A |-> "idR", D |-> "dynRA"]
    [] sc = "flat"    -> [F |-> "flatten"]
    [] sc = "cascade" -> [F |-> "flatten"]
    [] sc = "chain"   -> [X |-> "varChild"]
    [] sc = "direct"  -> [Z |-> "varBoth"]
    [] sc = "quiet"   -> [B |-> "halfR", G |-> "idB", H |-> "idG"]
    [] sc = "config"  -> << >>
    [] sc = "render"  -> << >>
    [] sc = "lazy"    -> [L |-> "flatten"]
    [] sc = "update"  -> [U |-> "idR", V |-> "idU"]
    [] sc = "root"    -> [X |-> "varRoot"]
    [] sc = "styled"  -> [F |-> "flatten"]

SignalsOf(sc) ==
  CASE sc = "diamond" -> {"R"}
    [] sc = "burst"   -> {"R", "S"}
    [] sc = "dyn"     -> {"R"}
    [] sc = "flat"    -> {"hover", "vh"}
    [] sc = "cascade" -> {"hover", "vh"}
    [] sc = "chain"   -> {"defLight"}
    [] sc = "direct"  -> {"defLight"}
    [] sc = "quiet"   -> {"R"}
    [] sc = "config"  -> {}
    [] sc = "render"  -> {"hover"}
    [] sc = "lazy"    -> {"layoutWidth"}
    [] sc = "update"  -> {"S"}
    [] sc = "root"    -> {"colorScheme"}
    [] sc = "styled"  -> {}

\* The methods of a color scheme Signal the client calls, and the values it
\* passes.
ColorSchemeMethods == {"set", "setLight", "setDark"}
SchemeVals == {Undefined, 4}

\* Computations the client hands a function with update(fn), and the
\* functions it hands them: the one the Computation was created with and
\* another one that reads one more Signal.
UpdateTargets(sc) == IF sc = "update" THEN {"U"} ELSE {}
UpdateFns == {"idR", "sumRS"}

\* CSS variable Signals the client sets through context.variables[key].set
VarTargets(sc) ==
  CASE sc \in {"chain", "direct"} -> {"parentVar", "childVar"}
    [] sc = "root"                -> {"rootVar"}
    [] OTHER                      -> {}

\* Contexts the client tears down with context.cleanup(), named by their
\* variable Signal, each at most once.
ContextCleanupTargets(sc) ==
  IF sc \in {"chain", "direct"} THEN {"childVar"} ELSE {}

\* Nodes a plain callback is subscribed to (useSyncExternalStore subscribes
\* to the Computation; a Signal can be subscribed directly).
CallbackTargets(sc) ==
  CASE sc = "diamond" -> {"C"}
    [] sc = "burst"   -> {"R"}
    [] sc = "dyn"     -> {}
    [] sc = "flat"    -> {"F"}
    [] OTHER          -> {}

\* Nodes whose plain callback the client removes again with unsubscribe
\* (the function subscribe() returned): a Signal and a Computation.
UnsubscribeTargets(sc) ==
  CASE sc = "burst"   -> {"R"}
    [] sc = "flat"    -> {"F"}
    [] OTHER          -> {}

\* Nodes the client tears down with cleanup(), each at most once.
CleanupTargets(sc) ==
  CASE sc = "diamond" -> {"A"}
    [] sc = "burst"   -> {"R"}
    [] sc = "dyn"     -> {}
    [] sc = "flat"    -> {"hover"}
    [] OTHER          -> {}

VhVals == {100, 200}
\* context.interaction.layoutWidth: 0 until a layout event reports a width
LayoutWidths == {0, 200}

ValsOf(s) ==
  CASE s = "R"          -> 0 .. MaxVal
    [] s = "S"          -> {0, 1}
    [] s = "hover"      -> BOOLEAN
    [] s = "vh"         -> VhVals
    [] s = "layoutWidth" -> LayoutWidths
    [] s = "defLight"   -> {Undefined, 4}
    [] s = "parentVar"  -> {Undefined, 8, 9}
    [] s = "childVar"   -> {Undefined, 5}
    [] s = "rootVar"    -> {Undefined, 7}
    [] s = "colorScheme" -> {"light", "dark"}
    [] OTHER            -> {}

VARIABLES
  scen,         \* the client program
  fn,           \* Computation.fn, NoFn before createComputation
  value,        \* the closure variable `value` of every Signal
  subscriptions,\* Signal.subscriptions: a JS Set, in insertion order
  dependencies, \* Computation.dependencies: Sets named by their owner
  waiting,      \* Computation.waiting
  fresh,        \* Computation.fresh
  context,      \* the module level tracking stack
  stack,        \* call stack of the running synchronous task
  immediates,   \* closures queued by setImmediate, oldest first
  flatStyle,    \* the object a flatten Computation returned last
  styleMetaMap, \* its entry in styleMetaMap
  phase,        \* "task": client code runs; "check": the queue drains
  burstSets,    \* Signals effectively set (and Computations effectively
                \* updated) by the current synchronous task
  \* history (never read by the program)
  lastOp,       \* the most recent top-level call
  trace,        \* pulses and executions of the most recent top-level call
  lastReads,    \* Signals read by the last execution of each Computation
  delivered,    \* callback invocations made by the most recent step
  detached,     \* subscribers removed by Signal.cleanup, not re-added since
  cleaned,      \* nodes on which cleanup() was called
  burstExec,    \* re-executions caused by the set() calls of this task
  unsubscribed, \* callbacks removed by unsubscribe(), not re-added since
  styleProp,    \* the style array the flatten Computation is given
  gotFresh,     \* a fresh pulse reached the Computation since it last ran
  \* the flat style's accessors, and the integration layer
  getters,      \* the function behind each key of flatStyle that has one
  error,        \* the exception the last top-level call ended with
  mapping,      \* the mapping given to globalCssInterop
  interopFunctions, \* interopFunctions.get(component): the normalized config
  memo          \* the useMemo cell of useComputation

vars == <<scen, fn, value, subscriptions, dependencies, waiting, fresh,
          context, stack, immediates, flatStyle, styleMetaMap, burstSets,
          phase, lastOp, trace, lastReads, delivered, detached, cleaned,
          burstExec, unsubscribed, styleProp, gotFresh, getters, error,
          mapping, interopFunctions, memo>>

progVars == <<fn, value, subscriptions, dependencies, waiting, fresh,
              context, stack, immediates, flatStyle, styleMetaMap, phase>>

\* ------------------------------------------------------- JS Set helpers
Range(sq) == {sq[i] : i \in 1 .. Len(sq)}
Has(sq, x) == \E i \in 1 .. Len(sq) : sq[i] = x
SetAdd(sq, x) == IF Has(sq, x) THEN sq ELSE Append(sq, x)
SetDelete(sq, x) == [i \in 1 .. Len(sq) |-> IF sq[i] = x THEN Empty ELSE sq[i]]
NotEmpty(e) == e # Empty
Compact(sq) == SelectSeq(sq, NotEmpty)

IsComp(x) == x \in Comps
IsCallback(x) == x \in Callbacks

\* ------------------------------------------------ tracked functions (fn)
\* mutant of ObjectIs: the equality test is lost, every set propagates
ObjectIsNever(a, b) == FALSE

\* Object.is on the values the model uses (numbers, booleans, references).
ObjectIs(a, b) == a = b

\* A fresh object is never Object.is-equal to the one the Signal holds:
\* references alternate between 1 and 2.
NewRef(old) == IF old = 1 THEN 2 ELSE 1

\* round(): Math.round((x + EPSILON) * 100) / 100 for x = num / den,
\* the result kept in hundredths (5000 is 50.00); halves round up.
round(num, den) == (2 * 100 * num + den) \div (2 * den)

\* ------------------------------------------------- CSS variable Signals
\* parentSignal of a variable Signal: context.variables[key] of the context
\* it inherits from.  The root context inherits from { variables: {} }, so
\* its parentSignal is undefined.
NoSignal == "undefined"
parentSignal(v) ==
  CASE v = "childVar"  -> "parentVar"
    [] v = "parentVar" -> "rootVar"
    [] v = "rootVar"   -> NoSignal

\* createColorSchemeSignal.get of the default scope: colorScheme.get() and
\* then light.get() or dark.get().
defaultSignalGet ==
  IF value["colorScheme"] = "light"
  THEN [reads |-> << "colorScheme", "defLight" >>, result |-> value["defLight"]]
  ELSE [reads |-> << "colorScheme", "defDark" >>, result |-> value["defDark"]]

\* mutant of Coalesce: the parent's value is preferred to the default scope
CoalesceParentFirst(own, def, par) ==
  IF own # Undefined THEN own ELSE IF par # Undefined THEN par ELSE def

\* signal.get() ?? defaultSignal.get() ?? parentSignal?.get()
Coalesce(own, def, par) ==
  IF own # Undefined THEN own ELSE IF def # Undefined THEN def ELSE par

\* createCSSVariableSignal.get: the operands of ?? are evaluated, and so
\* read and tracked, only as far as the first one that is not undefined.
RECURSIVE CssVarGet(_)
CssVarGet(v) ==
  LET d == defaultSignalGet
      p == IF parentSignal(v) = NoSignal
           THEN [reads |-> << >>, result |-> Undefined]
           ELSE CssVarGet(parentSignal(v))
  IN [reads  |-> IF value[v] # Undefined THEN << v >>
                 ELSE IF d.result # Undefined THEN << v >> \o d.reads
                 ELSE << v >> \o d.reads \o p.reads,
      result |-> Coalesce(value[v], d.result, p.result)]

\* createCSSVariableSignal.cleanup: every subscriber of the variable's own
\* Signal is unsubscribed from the default scope (light and dark) and from
\* parentSignal; the variable's own Set is left as it is.
CssVarCleanup(v) ==
  LET gone == Range(subscriptions[v]) \ {Empty}
      Without(sq) == SelectSeq(sq, LAMBDA e : e \notin gone)
  IN [n \in Nodes |->
        IF n \in {"defLight", "defDark", parentSignal(v)}
        THEN Without(subscriptions[n]) ELSE subscriptions[n]]

\* createCSSVariableSignal.cleanup when parentSignal is undefined:
\* parentSignal.unsubscribe(subscription) throws a TypeError for the first
\* subscription of the loop, which defaultSignal.unsubscribe has already
\* removed from the default scope.  With no subscription the loop body does
\* not run.
CleanupThrows(v) ==
  parentSignal(v) = NoSignal /\ Compact(subscriptions[v]) # << >>
CssVarCleanupThrown(v) ==
  LET first == Head(Compact(subscriptions[v]))
      Without(sq) == SelectSeq(sq, LAMBDA e : e # first)
  IN [n \in Nodes |->
        IF n \in {"defLight", "defDark"}
        THEN Without(subscriptions[n]) ELSE subscriptions[n]]

\* x ?? 0
OrZero(x) == IF x = Undefined THEN 0 ELSE x

\* ------------------------------------------------------------- fragments
\* A style object together with its styleMetaMap entry.  A field the entry
\* does not have is << >>.  A style prop is a style or an array of style
\* props.
Specificity(a, b, c) == [A |-> a, B |-> b, C |-> c, I |-> 0, S |-> 0, O |-> 0]
PlainStyle(spec, props) ==
  [kind |-> "style", specificity |-> spec, pseudoClasses |-> << >>,
   media |-> << >>, containerQuery |-> << >>, animations |-> << >>,
   transition |-> << >>, container |-> << >>, requiresLayout |-> FALSE,
   variables |-> << >>, style |-> props]
StyleArray(items) == [kind |-> "array", items |-> items]
Static(key, v) == [key |-> key, name |-> "static", arg |-> v]
Runtime(key, name, arg) == [key |-> key, name |-> name, arg |-> arg]
\* { type: "runtime", name } that has no `arguments`
NoArguments(key, name) == [key |-> key, name |-> name]
HasArguments(v) == "arg" \in DOMAIN v
\* An argument of a runtime function: a number, or a runtime value.
Number(n) == Static("", n)
\* A transform property: its entries are runtime values ("type" in
\* transform) or React Native transform objects { [tKey]: tValue }.
TransformObject(tKey, tValue) == [key |-> tKey, name |-> "object", arg |-> tValue]
Transform(entries) == [key |-> "transform", name |-> "transform", arg |-> entries]

\* The style prop of the "flat" client: an unconditional fragment, and a
\* fragment of higher specificity gated by :hover that also has a viewport
\* unit.
StyleInput ==
  << PlainStyle(Specificity(0, 1, 0),
                << Static("width", 10), Static("color", "red") >>),
     [PlainStyle(Specificity(0, 2, 0),
                 << Runtime("height", "vh", 50), Static("color", "blue") >>)
        EXCEPT !.pseudoClasses = [hover |-> TRUE]] >>

\* Fragments of the "cascade" client.  F1 (A=1) has the higher specificity,
\* F2 (A=0, B=5, C=5) the lower; both declare color, the variable --gap and
\* every kind of metadata.
F1 ==
  [PlainStyle(Specificity(1, 0, 0),
              << Static("color", "f1"), Runtime("margin", "var", "--gap") >>)
     EXCEPT !.animations = [name |-> "a1"],
            !.transition = [duration |-> 1],
            !.container = [names |-> << "c1" >>, type |-> "t1"],
            !.variables = << Static("--gap", 1) >>]
F2 ==
  [PlainStyle(Specificity(0, 5, 5),
              << Static("color", "f2"), Runtime("padding", "var", "--gap") >>)
     EXCEPT !.animations = [name |-> "a2", delay |-> 2],
            !.transition = [duration |-> 2, delay |-> 2],
            !.container = [names |-> << "c2" >>],
            !.requiresLayout = TRUE,
            !.variables = << Static("--gap", 2), Static("--pad", 3) >>]

\* Gated fragments: each declares a property, a variable and metadata that
\* no other fragment of its style prop declares.
Gated(b, key, mark) ==
  [PlainStyle(Specificity(0, b, 0), << Static(key, mark) >>)
     EXCEPT !.animations = [name |-> mark],
            !.transition = [duration |-> b],
            !.container = [names |-> << mark >>, type |-> mark],
            !.requiresLayout = TRUE,
            !.variables = << Static(mark, b) >>]
GatedByHover == [Gated(2, "opacity", "gh") EXCEPT !.pseudoClasses = [hover |-> TRUE]]
GatedByMedia ==
  [Gated(3, "top", "gm") EXCEPT !.media = << [minHeight |-> 150] >>]
GatedByContainer ==
  [Gated(4, "left", "gc") EXCEPT !.containerQuery = << [name |-> "sidebar"] >>]
Base == PlainStyle(Specificity(0, 1, 0), << Static("color", "red") >>)
\* A fragment that carries the three kinds of condition at once.
GatedThrice ==
  [Gated(5, "bottom", "gt") EXCEPT !.pseudoClasses = [hover |-> TRUE],
                                   !.media = << [minHeight |-> 150] >>,
                                   !.containerQuery = << [name |-> "sidebar"] >>]

\* The style props the "cascade" client is given: the two orders of F1 and
\* F2, nested one and two levels deep, and the gated fragments.
CascadeInputs ==
  << StyleArray(<< F1, F2 >>),
     StyleArray(<< F2, F1 >>),
     StyleArray(<< StyleArray(<< F1 >>), F2 >>),
     StyleArray(<< StyleArray(<< StyleArray(<< F1 >>) >>), F2 >>),
     StyleArray(<< StyleArray(<< StyleArray(<< F2 >>) >>), F1 >>),
     StyleArray(<< GatedByHover, GatedByMedia, GatedByContainer, Base >>),
     StyleArray(<< GatedThrice, Base >>) >>

\* The style props of the "lazy" client: a variable that is undefined in
\* the context over a plain value, an element-relative unit, a runtime function
\* of one, runtime functions and a unit without arguments, and a list of
\* transforms.
Lower == PlainStyle(Specificity(0, 1, 0), << Static("top", 7) >>)
Higher(props) == PlainStyle(Specificity(0, 2, 0), props)
MissingVariable ==
  StyleArray(<< Lower, Higher(<< Runtime("top", "var", "--missing") >>) >>)
ContainerWidth == StyleArray(<< Higher(<< Runtime("left", "cw", 50) >>) >>)
FunctionOfLazy ==
  StyleArray(<< Higher(<< Runtime("left", "translateX",
                                  << Runtime("", "cw", 50) >>),
                          Runtime("right", "translateX", << Number(10) >>) >>) >>)
FunctionWithoutArguments ==
  StyleArray(<< Lower, Higher(<< NoArguments("top", "translateX"),
                                 Static("left", 3) >>) >>)
UnitWithoutArguments ==
  StyleArray(<< Lower, Higher(<< NoArguments("top", "vh"),
                                 Static("left", 3) >>) >>)
TransformList ==
  StyleArray(<< Higher(<< Transform(
     << Runtime("", "translateX", << Number(10) >>),
        TransformObject("scale", Number(2)),
        Runtime("", "translateX", << Runtime("", "cw", 50) >>),
        NoArguments("", "translateX") >>) >>) >>)
LazyInputs ==
  << MissingVariable, ContainerWidth, FunctionOfLazy,
     FunctionWithoutArguments, UnitWithoutArguments, TransformList >>

\* The style prop of the "styled" client: a fragment gated by :hover that
\* declares the inline variable --gap, over a plain fragment.
DeclaresGap ==
  [PlainStyle(Specificity(0, 2, 0), << Static("opacity", 1) >>)
     EXCEPT !.pseudoClasses = [hover |-> TRUE],
            !.variables = << Static("--gap", 2) >>]

StylePropsOf(sc) ==
  CASE sc = "flat"    -> << StyleArray(StyleInput) >>
    [] sc = "styled"  -> << StyleArray(<< DeclaresGap, Base >>) >>
    [] sc = "render"  -> << StyleArray(StyleInput) >>
    [] sc = "cascade" -> CascadeInputs
    [] sc = "lazy"    -> LazyInputs
    [] OTHER          -> << StyleArray(<< >>) >>

\* styleSpecificityCompareFn: negative, zero or positive.  An element that
\* has no specificity of its own (a nested array) compares as an inline
\* style: after every fragment that has one, and equal to its like.
SpecificityFields == <<"A", "B", "C", "I", "S", "O">>
RECURSIVE CompareFrom(_, _, _)
CompareFrom(a, b, i) ==
  IF i > Len(SpecificityFields) THEN 0
  ELSE LET f == SpecificityFields[i]
       IN IF a[f] # b[f] THEN a[f] - b[f] ELSE CompareFrom(a, b, i + 1)
styleSpecificityCompareFn(x, y) ==
  IF x.kind = "array" THEN (IF y.kind = "array" THEN 0 ELSE 1)
  ELSE IF y.kind = "array" THEN -1
  ELSE CompareFrom(x.specificity, y.specificity, 1)

\* Array.prototype.sort is stable: insert each element after the last one
\* that does not compare greater.
RECURSIVE InsertSorted(_, _)
InsertSorted(sorted, x) ==
  IF sorted = << >> THEN << x >>
  ELSE IF styleSpecificityCompareFn(sorted[Len(sorted)], x) <= 0
       THEN Append(sorted, x)
       ELSE Append(InsertSorted(SubSeq(sorted, 1, Len(sorted) - 1), x),
                   sorted[Len(sorted)])
RECURSIVE SortStyles(_)
SortStyles(sq) ==
  IF sq = << >> THEN << >>
  ELSE InsertSorted(SortStyles(SubSeq(sq, 1, Len(sq) - 1)), sq[Len(sq)])

\* Array.prototype.flat(): one level of nesting is removed.
RECURSIVE flat(_, _)
flat(items, i) ==
  IF i > Len(items) THEN << >>
  ELSE (IF items[i].kind = "array" THEN items[i].items ELSE << items[i] >>)
         \o flat(items, i + 1)

\* testPseudoClasses: every requested pseudo class reads its interaction
\* Signal; all of them must be true.
PseudoOrder == << "hover" >>
RequestedPseudo(q) ==
  SelectSeq(PseudoOrder, LAMBDA p : p \in DOMAIN q /\ q[p])
testPseudoClasses(q) ==
  [reads |-> RequestedPseudo(q),
   pass  |-> \A i \in 1 .. Len(RequestedPseudo(q)) :
               value[RequestedPseudo(q)[i]] = TRUE]

\* styleMeta.media.every(testMediaQuery): a query on the viewport height
\* reads the vh Signal; every() stops at the first query that fails.
testMediaQuery(m) == value["vh"] >= m.minHeight
RECURSIVE testMedia(_, _)
testMedia(media, i) ==
  IF i > Len(media) THEN [reads |-> << >>, pass |-> TRUE]
  ELSE IF ~testMediaQuery(media[i]) THEN [reads |-> << "vh" >>, pass |-> FALSE]
  ELSE [reads |-> << "vh" >> \o testMedia(media, i + 1).reads,
        pass  |-> testMedia(media, i + 1).pass]

\* testContainerQuery: no query passes; a query names a container, which
\* is looked up in context.containers and fails when it is not there.  The
\* contexts of the clients have no container.
containers == {}
testContainerQuery(query) ==
  \A i \in 1 .. Len(query) : query[i].name \in containers

\* The flat style under construction, its styleMetaMap entry, the Signals read so far, and (history) the
\* fragments visited so far, in the order they were visited.
EmptyMeta ==
  [pseudoClasses |-> << >>, animations |-> << >>, transition |-> << >>,
   container |-> << >>, requiresLayout |-> FALSE, variables |-> << >>]
EmptyFlat ==
  [style |-> << >>, meta |-> EmptyMeta, reads |-> << >>, visited |-> << >>,
   getters |-> << >>, threw |-> FALSE, invoked |-> 0]

\* context.variables[name] of the component's own context
ContextVariable(name) == "childVar"

\* isRuntimeValue(value): the value is { type: "runtime", ... }
isRuntimeValue(v) == v.name # "static"

\* What extractValue returns: a value (fn is FALSE) or a function (fn is
\* TRUE); op and args say what the function does when it is called.  reads
\* are the Signals read on the way, op "undefined" marks the value
\* undefined, threw says that the call ended in a
\* TypeError, invoked counts the functions called on the way.
Extracted(reads, val, isFn, op, args) ==
  [reads |-> reads, val |-> val, fn |-> isFn, op |-> op, args |-> args,
   threw |-> FALSE, invoked |-> 0]
Value(reads, val) == Extracted(reads, val, FALSE, "value", << >>)
UndefinedValue(reads) == Extracted(reads, Undefined, FALSE, "undefined", << >>)
ThrewTypeError(reads) == [UndefinedValue(reads) EXCEPT !.threw = TRUE]

\* Calling the function extractValue returned (a holds op, val and args):
\* the value it returns and the number of functions that ran.  The
\* function of var returns the value it captured; the one of cw reads
\* layoutWidth; the valueFn of createRuntimeFunction calls the arguments
\* that are functions, drops undefined, joins (an empty join returns
\* undefined) and parses: one number comes back as that number.
RECURSIVE Invoke(_)
RECURSIVE InvokeArgs(_, _)
InvokeArgs(args, i) ==
  IF i > Len(args) THEN [vals |-> << >>, calls |-> 0]
  ELSE LET r == IF args[i].fn THEN Invoke(args[i])
                ELSE [val |-> args[i].val, calls |-> 0]
           rest == InvokeArgs(args, i + 1)
       IN [vals  |-> IF r.val = Undefined THEN rest.vals
                     ELSE << r.val >> \o rest.vals,
           calls |-> r.calls + rest.calls]
Invoke(a) ==
  CASE a.op = "var" -> [val |-> a.val, calls |-> 1]
    [] a.op = "cw"  -> [val |-> round(value["layoutWidth"] * a.val, 1),
                        calls |-> 1]
    [] a.op = "runtime" ->
         LET r == InvokeArgs(a.args, 1)
         IN [val   |-> IF Len(r.vals) = 0 THEN Undefined
                       ELSE IF Len(r.vals) = 1 THEN r.vals[1] ELSE r.vals,
             calls |-> 1 + r.calls]

\* mutant of IsStatic: a function among the arguments goes unnoticed
IsStaticAlways(args) == TRUE

\* createRuntimeFunction: isStatic is false when an argument is a function
IsStatic(args) == \A i \in 1 .. Len(args) : ~args[i].fn

RECURSIVE ReadsOfArgs(_)
ReadsOfArgs(args) ==
  IF Len(args) = 0 THEN << >> ELSE args[1].reads \o ReadsOfArgs(Tail(args))

\* extractValue: a value that is not a runtime value is returned as is; vh
\* is computed during the pass from the vh Signal, which is read (and
\* tracked); var takes the variable of the flat style if it has one and
\* else reads the context's variable Signal, and returns a function that
\* resolves to that value; cw reads layoutWidth and returns the product,
\* or a function when the width is 0; translateX goes through
\* createRuntimeFunction with { wrap: false }.  var, vh and cw take
\* value.arguments[0], a TypeError when the value has no arguments.
RECURSIVE extractValue(_, _)
\* valueFn, and what calling it at once returns
ValueFn(args) == Extracted(ReadsOfArgs(args), Undefined, TRUE, "runtime", args)
Called(reads, r) ==
  [(IF r.val = Undefined THEN UndefinedValue(reads) ELSE Value(reads, r.val))
     EXCEPT !.invoked = r.calls - 1]
\* return isStatic ? valueFn() : valueFn, for the extracted arguments
RuntimeFunctionOf(args) ==
  IF \E i \in 1 .. Len(args) : args[i].threw
  THEN ThrewTypeError(ReadsOfArgs(args))
  ELSE IF IsStatic(args)
  THEN Called(ReadsOfArgs(args), Invoke(ValueFn(args)))
  ELSE ValueFn(args)
createRuntimeFunction(v, acc) ==
  RuntimeFunctionOf(IF HasArguments(v)
                    THEN [i \in 1 .. Len(v.arg) |-> extractValue(v.arg[i], acc)]
                    ELSE << >>)
extractValue(v, acc) ==
  IF ~isRuntimeValue(v) THEN Value(<< >>, v.arg)
  ELSE IF v.name = "translateX" THEN createRuntimeFunction(v, acc)
  ELSE IF ~HasArguments(v) THEN ThrewTypeError(<< >>)
  ELSE
  CASE v.name = "vh"     -> Value(<< "vh" >>, round(value["vh"] * v.arg, 100))
    [] v.name = "var"    ->
         IF v.arg \in DOMAIN acc.meta.variables
              /\ acc.meta.variables[v.arg] # Undefined
         THEN Extracted(<< >>, acc.meta.variables[v.arg], TRUE, "var", << >>)
         ELSE Extracted(CssVarGet(ContextVariable(v.arg)).reads,
                        CssVarGet(ContextVariable(v.arg)).result,
                        TRUE, "var", << >>)
    [] v.name = "cw"     ->
         LET reference == value["layoutWidth"]
         IN IF reference # 0
            THEN Value(<< "layoutWidth" >>, round(reference * v.arg, 1))
            ELSE Extracted(<< "layoutWidth" >>, v.arg, TRUE, "cw", << >>)

\* mutant of DefineProperty: a property that is already defined is kept
DefinePropertyKeepsFirst(style, key, val) == style @@ (key :> val)

\* Object.defineProperty(target, token, { configurable: true, ... })
DefineProperty(style, key, val) == (key :> val) @@ style

\* The keys a consumer reads.
PropertyKeys == {"top", "left", "right"}

\* What the flat style holds for a property whose getter calls a function
\* that reads state when it is called.
Accessor == "accessor"
DeleteKey(f, key) == [k \in DOMAIN f \ {key} |-> f[k]]

\* getterOrValue === undefined
IsUndefined(e) == e.op = "undefined"

\* The Signals read and the functions called for one value are those of
\* the pass.
Accumulate(acc, e) ==
  [acc EXCEPT !.reads = @ \o e.reads, !.invoked = @ + e.invoked]

\* The loop over the entries of a transform: a runtime value is pushed
\* when extractValue returned a function for it, and skipped when it
\* returned undefined; every entry of a transform object is pushed.
Pushes(entry, e) ==
  IF entry.name = "object" THEN TRUE
  ELSE IF IsUndefined(e) THEN FALSE
  ELSE e.fn
Pushed(entry, e) ==
  [key |-> IF entry.name = "object" THEN entry.key ELSE entry.name,
   fn |-> e.fn]
RECURSIVE Transforms(_, _, _, _)
TransformEntry(entries, i, acc, transforms, entry, e) ==
  IF e.threw THEN [Accumulate(acc, e) EXCEPT !.threw = TRUE]
  ELSE Transforms(entries, i + 1, Accumulate(acc, e),
                  IF Pushes(entry, e) THEN Append(transforms, Pushed(entry, e))
                  ELSE transforms)
Transforms(entries, i, acc, transforms) ==
  IF i > Len(entries)
  THEN [acc EXCEPT !.style = DefineProperty(@, "transform", transforms)]
  ELSE TransformEntry(entries, i, acc, transforms, entries[i],
         extractValue(IF entries[i].name = "object" THEN entries[i].arg
                      ELSE entries[i], acc))

\* extractAndDefineProperty after extractValue: nothing for undefined, else
\* the property is defined with a getter.
DefineExtracted(acc, key, e) ==
  IF IsUndefined(e) THEN acc
  ELSE [acc EXCEPT
          !.style = DefineProperty(@, key,
                      IF e.fn /\ e.op # "var" THEN Accessor ELSE e.val),
          !.getters = IF e.fn
                      THEN (key :> [op |-> e.op, val |-> e.val,
                                    args |-> e.args, fn |-> TRUE]) @@ @
                      ELSE DeleteKey(@, key)]

\* The loop over Object.entries(style): the transform case, and
\* extractAndDefineProperty for every other key.  The loop ends where
\* extractValue throws.
RECURSIVE DefineProperties(_, _, _)
DefineEntry(props, i, acc, e) ==
  IF e.threw THEN [Accumulate(acc, e) EXCEPT !.threw = TRUE]
  ELSE DefineProperties(props, i + 1,
         DefineExtracted(Accumulate(acc, e), props[i].key, e))
DefineProperties(props, i, acc) ==
  IF i > Len(props) \/ acc.threw THEN acc
  ELSE IF props[i].name = "transform"
  THEN DefineProperties(props, i + 1, Transforms(props[i].arg, 1, acc, << >>))
  ELSE DefineEntry(props, i, acc, extractValue(props[i], acc))

\* mutant of VariableIsSet: a later definition replaces the variable
VariableIsSetNever(variables, key) == FALSE

\* if (key in flatStyleMeta.variables) continue
VariableIsSet(variables, key) == key \in DOMAIN variables

\* The loop over Object.entries(styleMeta.variables).
RECURSIVE DefineVariables(_, _, _)
DefineVariables(entries, i, acc) ==
  IF i > Len(entries) THEN acc
  ELSE IF VariableIsSet(acc.meta.variables, entries[i].key)
       THEN DefineVariables(entries, i + 1, acc)
       ELSE LET e == extractValue(entries[i], acc)
            IN DefineVariables(entries, i + 1,
                 [acc EXCEPT !.meta.variables = (entries[i].key :> e.val) @@ @,
                             !.reads = @ \o e.reads])

\* { ...styleMeta.animations, ...flatStyleMeta.animations } and the same
\* for transition: a key the flat style has already is kept.
SpreadUnder(flatValue, styleValue) == flatValue @@ styleValue

\* flatStyleMeta.container ??= { type: "normal", names: [] }, then names
\* and type are assigned from the fragment when it has them.
MergeContainer(flatValue, styleValue) ==
  LET c0 == IF DOMAIN flatValue = {}
            THEN [type |-> "normal", names |-> << >>] ELSE flatValue
      c1 == IF "names" \in DOMAIN styleValue
            THEN [c0 EXCEPT !.names = styleValue.names] ELSE c0
  IN IF "type" \in DOMAIN styleValue
     THEN [c1 EXCEPT !.type = styleValue.type] ELSE c1

\* The metadata merge of a fragment whose conditions passed.
MergeMetadata(frag, acc) ==
  [acc EXCEPT
     !.meta.animations = IF DOMAIN frag.animations # {}
                         THEN SpreadUnder(@, frag.animations) ELSE @,
     !.meta.transition = IF DOMAIN frag.transition # {}
                         THEN SpreadUnder(@, frag.transition) ELSE @,
     !.meta.container = IF DOMAIN frag.container # {}
                        THEN MergeContainer(@, frag.container) ELSE @,
     !.meta.requiresLayout = @ \/ frag.requiresLayout]

\* mutant of MergePseudoClasses: the query of the fragment is not recorded
MergePseudoClassesNothing(flatValue, styleValue) == flatValue

\* flatStyleMeta.pseudoClasses =
\*   { ...styleMeta.pseudoClasses, ...flatStyleMeta.pseudoClasses }
MergePseudoClasses(flatValue, styleValue) == flatValue @@ styleValue

\* mutant of MediaFails: a fragment whose media query fails is not skipped
MediaFailsNever(pass) == FALSE

\* if (styleMeta.media && !styleMeta.media.every(...)) return flatStyle
MediaFails(pass) == ~pass

\* flattenStyle for one (non-array) style.
FlattenOne(frag, flatStyle0) ==
  LET acc  == [flatStyle0 EXCEPT !.visited = Append(@, frag)]
      hasPseudo == DOMAIN frag.pseudoClasses # {}
      t    == testPseudoClasses(frag.pseudoClasses)
      acc1 == IF hasPseudo
              THEN [acc EXCEPT !.meta.pseudoClasses =
                                 MergePseudoClasses(@, frag.pseudoClasses),
                               !.reads = @ \o t.reads]
              ELSE acc
      m    == testMedia(frag.media, 1)
      acc2 == [acc1 EXCEPT !.reads = @ \o m.reads]
  IN IF hasPseudo /\ ~t.pass THEN acc1
     ELSE IF MediaFails(m.pass) THEN acc2
     ELSE IF ~testContainerQuery(frag.containerQuery) THEN acc2
     ELSE DefineProperties(frag.style, 1,
            DefineVariables(frag.variables, 1, MergeMetadata(frag, acc2)))

\* flattenStyle: an array is flattened one level, sorted, and each element
\* is flattened into the same flat style.
RECURSIVE flattenStyle(_, _)
RECURSIVE FlattenEach(_, _, _)
FlattenEach(sorted, i, acc) ==
  IF i > Len(sorted) \/ acc.threw THEN acc
  ELSE FlattenEach(sorted, i + 1, flattenStyle(sorted[i], acc))

flattenStyle(style, acc) ==
  IF style.kind = "array"
  THEN FlattenEach(SortStyles(flat(style.items, 1)), 1, acc)
  ELSE FlattenOne(style, acc)

\* () => flattenStyle(currentValue, context): a new object every time
Flattened(r, c) ==
  [reads |-> r.reads, result |-> NewRef(value[c]), style |-> r.style,
   meta |-> r.meta, getters |-> r.getters, threw |-> r.threw,
   invoked |-> r.invoked]

\* What one call of fn() does: the Signals it reads, in order, and the
\* value it returns.  Reads are Signal.get calls; they change no value.
RunFn(f, c) ==
  CASE f = "idR"   -> [reads |-> << "R" >>, result |-> value["R"],
                       style |-> << >>, meta |-> << >>]
    [] f = "halfR" -> [reads |-> << "R" >>, result |-> value["R"] \div 2,
                       style |-> << >>, meta |-> << >>]
    [] f = "idB"   -> [reads |-> << "B" >>, result |-> value["B"],
                       style |-> << >>, meta |-> << >>]
    [] f = "idG"   -> [reads |-> << "G" >>, result |-> value["G"],
                       style |-> << >>, meta |-> << >>]
    [] f = "idU"   -> [reads |-> << "U" >>, result |-> value["U"],
                       style |-> << >>, meta |-> << >>]
    [] f = "sumAB" -> [reads |-> << "A", "B" >>,
                       result |-> (value["A"] + value["B"]) % (MaxVal + 1),
                       style |-> << >>, meta |-> << >>]
    [] f = "sumRS" -> [reads |-> << "R", "S" >>,
                       result |-> (value["R"] + value["S"]) % (MaxVal + 1),
                       style |-> << >>, meta |-> << >>]
    [] f = "dynRA" -> IF value["R"] >= 1
                      THEN [reads |-> << "R", "A" >>, result |-> value["A"],
                            style |-> << >>, meta |-> << >>]
                      ELSE [reads |-> << "R" >>, result |-> 0,
                            style |-> << >>, meta |-> << >>]
    [] f = "varChild" ->
         LET g == CssVarGet("childVar")
         IN [reads |-> g.reads, result |-> g.result,
             style |-> << >>, meta |-> << >>]
    [] f = "varRoot" ->
         LET g == CssVarGet("rootVar")
         IN [reads |-> g.reads, result |-> g.result,
             style |-> << >>, meta |-> << >>]
    [] f = "varBoth" ->
         LET g == CssVarGet("parentVar")
             h == CssVarGet("childVar")
         IN [reads |-> g.reads \o h.reads,
             result |-> OrZero(g.result) + OrZero(h.result),
             style |-> << >>, meta |-> << >>]
    [] f = "flatten" -> Flattened(flattenStyle(styleProp, EmptyFlat), c)

\* ------------------------------------------------------- prop mapping
\* The value of one entry of the mapping given to globalCssInterop: what
\* typeof says of it, whether it is truthy, the string it is, and for an
\* object its target and its nativeStyleToProp.
NoTarget == [typeof |-> "undefined", str |-> ""]
Option(ty, truthy, str, target, nstp) ==
  [typeof |-> ty, truthy |-> truthy, str |-> str, target |-> target,
   nativeStyleToProp |-> nstp]
ObjectOption(target, nstp) == Option("object", TRUE, "", target, nstp)
Options ==
  { Option("undefined", FALSE, "", NoTarget, << >>),
    Option("boolean", FALSE, "", NoTarget, << >>),
    Option("boolean", TRUE, "", NoTarget, << >>),
    Option("string", FALSE, "", NoTarget, << >>),
    Option("string", TRUE, "style", NoTarget, << >>),
    ObjectOption([typeof |-> "boolean", str |-> ""], << >>),
    ObjectOption([typeof |-> "string", str |-> "style"], [color |-> TRUE]),
    ObjectOption([typeof |-> "undefined", str |-> ""], << >>),
    ObjectOption([typeof |-> "number", str |-> ""], [color |-> TRUE]) }

\* Object.entries(mapping): the keys in insertion order, each with its value.
MappingKeys == << "className", "contentContainerClassName" >>
Mappings ==
  UNION { [1 .. n -> Options] : n \in 1 .. Len(MappingKeys) }
MappingsOf(sc) == IF sc = "config" THEN Mappings ELSE { << >> }

\* mutant of TargetOf: an object without a usable target maps to its key
TargetOfLenient(key, options) ==
  CASE options.typeof = "string" -> options.str
    [] options.typeof = "object" /\ options.target.typeof = "string" ->
         options.target.str
    [] OTHER -> key

\* The target of an entry, "" when the code reaches `throw new Error`.
Throws == ""
TargetOf(key, options) ==
  CASE options.typeof = "boolean" -> key
    [] options.typeof = "string" -> options.str
    [] options.target.typeof = "boolean" -> key
    [] options.target.typeof = "string" -> options.target.str
    [] OTHER -> Throws

\* nativeStyleToProp is taken from an object entry only.
NativeStyleToPropOf(options) ==
  IF options.typeof \in {"boolean", "string"} THEN << >>
  ELSE options.nativeStyleToProp

\* Set.add on an insertion-ordered Set, Array.from at the end
AddOnce(sq, x) == IF \E i \in 1 .. Len(sq) : sq[i] = x THEN sq ELSE Append(sq, x)

EmptyNormalized ==
  [config |-> << >>, dependencies |-> << >>, sources |-> << >>,
   thrown |-> FALSE]

\* One round of the loop of getNormalizeConfig.
NormalizeEntry(acc, key, options) ==
  IF ~options.truthy THEN acc
  ELSE LET target == TargetOf(key, options)
           nstp == NativeStyleToPropOf(options)
           existing == IF target \in DOMAIN acc.config THEN acc.config[target]
                       ELSE [sources |-> << >>, nativeStyleToProp |-> << >>]
       IN IF target = Throws THEN [acc EXCEPT !.thrown = TRUE]
          ELSE [acc EXCEPT
                  !.config = (target :>
                     [sources |-> Append(existing.sources, key),
                      nativeStyleToProp |-> nstp @@ existing.nativeStyleToProp])
                     @@ @,
                  !.dependencies = AddOnce(AddOnce(@, target), key),
                  !.sources = AddOnce(@, key)]

\* getNormalizeConfig(mapping): the loop ends at the first entry that throws.
RECURSIVE NormalizeFrom(_, _, _)
NormalizeFrom(m, i, acc) ==
  IF i > Len(m) \/ acc.thrown THEN acc
  ELSE NormalizeFrom(m, i + 1, NormalizeEntry(acc, MappingKeys[i], m[i]))
getNormalizeConfig(m) == NormalizeFrom(m, 1, EmptyNormalized)

\* ------------------------------------------------------------ call stack
Frame(k, n, change, fr, i, pc, src) ==
  [k |-> k, n |-> n, change |-> change, fr |-> fr, i |-> i, pc |-> pc,
   src |-> src]
SetFrame(s) == Frame("set", s, 0, FALSE, 0, "up", s)
LoopFrame(s, change, fr) == Frame("loop", s, change, fr, 1, "iter", s)
StaleFrame(c, change, fr, src) == Frame("stale", c, change, fr, 0, "start", src)
ExecFrame(c) == Frame("exec", c, 0, FALSE, 0, "start", c)

Idle == stack = << >>
Top == stack[Len(stack)]
Pop(stk) == SubSeq(stk, 1, Len(stk) - 1)
Push(stk, f) == Append(stk, f)
ReplaceTop(stk, f) == [stk EXCEPT ![Len(stk)] = f]

\* No iterator is alive once the task has returned: the deleted entries
\* of every Set can be dropped.
Settle(subs, stk) ==
  IF stk = << >> THEN [n \in Nodes |-> Compact(subs[n])] ELSE subs

\* ---------------------------------------------------------- trace events
Event(e, a, b, change, fr, s1, s2) ==
  [e |-> e, a |-> a, b |-> b, change |-> change, fr |-> fr, s1 |-> s1,
   s2 |-> s2]
\* a pulse delivered by the stale loop of Signal `from` to Computation `to`
PulseEvent(from, to, change, fr) == Event("pulse", from, to, change, fr, {}, {})
\* fn of c ran: prev = the Signals its previous run read, staleDeps = the
\* Computations it read now that were waiting to re-execute
ExecEvent(c, prev, staleDeps) == Event("exec", c, c, 0, FALSE, prev, staleDeps)
\* an effective set on s began; targets = its Computation subscribers
SetEvent(s, targets) == Event("set", s, s, 0, FALSE, targets, {})
\* that set returned
ReturnEvent(s) == Event("ret", s, s, 0, FALSE, {}, {})
\* a pulse that Computation `to` returned from at once
IgnoreEvent(from, to, change, fr) ==
  Event("ignore", from, to, change, fr, {}, {})
\* fn of c called `calls` of the functions extractValue returned
InvokeEvent(c, calls) == Event("invoke", c, c, calls, FALSE, {}, {})

CompSubscribers(s) == {c \in Comps : Has(subscriptions[s], c)}
Created(n) == IF n \in PlainSignals THEN TRUE ELSE fn[n] # NoFn
AllCreated == \A c \in DOMAIN PlanOf(scen) : fn[c] # NoFn
ZeroExec == [c \in Comps |-> 0]

\* ------------------------------------------------------------------ Init
Init ==
  /\ scen \in Scenarios
  /\ fn = [c \in Comps |-> NoFn]
  /\ value = [n \in Nodes |->
                CASE n \in {"R", "S"} -> 0
                  [] n = "hover"      -> FALSE
                  [] n = "vh"         -> 100
                  [] n = "layoutWidth" -> 0
                  [] n = "colorScheme" -> "light"
                  [] OTHER            -> Undefined]
  /\ subscriptions = [n \in Nodes |-> << >>]
  /\ dependencies = [c \in Comps |-> {}]
  /\ waiting = [c \in Comps |-> 0]
  /\ fresh = [c \in Comps |-> FALSE]
  /\ context = << >>
  /\ stack = << >>
  /\ immediates = << >>
  /\ flatStyle = [c \in Comps |-> << >>]
  /\ styleMetaMap = [c \in Comps |-> << >>]
  /\ burstSets = << >>
  /\ lastOp = [op |-> "init", n |-> "R", noop |-> FALSE]
  /\ trace = << >>
  /\ lastReads = [c \in Comps |-> {}]
  /\ delivered = << >>
  /\ detached = [n \in Nodes |-> {}]
  /\ cleaned = {}
  /\ phase = "task"
  /\ burstExec = ZeroExec
  /\ unsubscribed = [n \in Nodes |-> {}]
  /\ gotFresh = [c \in Comps |-> FALSE]
  /\ getters = [c \in Comps |-> << >>]
  /\ error = NoError
  /\ mapping \in MappingsOf(scen)
  /\ interopFunctions = NoConfig
  /\ memo = NoMemo
  /\ \E i \in 1 .. Len(StylePropsOf(scen)) : styleProp = StylePropsOf(scen)[i]

\* ------------------------------------------------- top-level operations
\* createComputation(fn): a fresh Signal holding undefined, and the first
\* execute().
Create(c) ==
  /\ Idle /\ phase = "task"
  /\ c \in DOMAIN PlanOf(scen)
  /\ fn[c] = NoFn
  /\ \A d \in Range(RunFn(PlanOf(scen)[c], c).reads) \cap Comps : fn[d] # NoFn
  /\ fn' = [fn EXCEPT ![c] = PlanOf(scen)[c]]
  /\ stack' = << ExecFrame(c) >>
  /\ lastOp' = [op |-> "create", n |-> c, noop |-> FALSE]
  /\ trace' = << >>
  /\ delivered' = << >>
  /\ UNCHANGED <<scen, styleProp, gotFresh, getters, error, mapping,
                 interopFunctions, memo, unsubscribed, value, subscriptions,
                 dependencies, waiting, fresh,
                 context, immediates, flatStyle, styleMetaMap, burstSets,
                 phase, lastReads, detached, cleaned, burstExec>>

\* mutant of SameFn: no function is recognised as the one already held
SameFnNever(f, g) == FALSE

\* fn === this.fn: functions are compared by identity
SameFn(f, g) == f = g

\* Computation.update(fn): nothing when fn is the function already held,
\* else this.fn = fn and one execute().
Update(c, f) ==
  /\ Idle /\ phase = "task"
  /\ c \in UpdateTargets(scen)
  /\ f \in UpdateFns
  /\ fn[c] # NoFn
  /\ Len(burstSets) < MaxBurst
  /\ lastOp' = [op |-> "update", n |-> c, noop |-> SameFn(f, fn[c]),
                f |-> f, was |-> fn[c], deps |-> dependencies[c]]
  /\ trace' = << >>
  /\ delivered' = << >>
  /\ IF SameFn(f, fn[c])
     THEN UNCHANGED <<fn, stack, burstSets>>
     ELSE /\ fn' = [fn EXCEPT ![c] = f]
          /\ stack' = << ExecFrame(c) >>
          /\ burstSets' = Append(burstSets, c)
  /\ UNCHANGED <<scen, styleProp, gotFresh, getters, error, mapping,
                 interopFunctions, memo, unsubscribed, value, subscriptions,
                 dependencies, waiting, fresh,
                 context, immediates, flatStyle, styleMetaMap,
                 phase, lastReads, detached, cleaned, burstExec>>

\* The Computations that the renders of the "render" client can create,
\* in the order they are created.
RenderComps == << "M1", "M2" >>

\* useMemo compares the stored dependency array with the new one element by
\* element with Object.is.  useComputation passes [dependencies]: the one
\* element is the array the caller built for this render, an object, which
\* Object.is compares by identity (here: the number of the render that
\* allocated it).
SameObject(ref1, ref2) == ref1 = ref2
MemoHit(prevDeps, nextDeps) ==
  /\ Len(prevDeps) = Len(nextDeps)
  /\ \A i \in 1 .. Len(prevDeps) : SameObject(prevDeps[i], nextDeps[i])

\* One render of a component that calls
\* useComputation(() => flattenStyle(currentValue, context), [currentValue])
\* with the same currentValue and the same context as before: useMemo
\* returns the Computation it has or calls createComputation(fn), which
\* executes fn.  (The subscription that useSyncExternalStore makes in the
\* commit phase is not part of the render.)
Render ==
  /\ Idle /\ phase = "task"
  /\ scen = "render"
  /\ memo.ref < Len(RenderComps)
  /\ LET ref == memo.ref + 1
         c == RenderComps[ref]
         hit == memo.comp # NoFn /\ MemoHit(<< memo.ref >>, << ref >>)
     IN IF hit
        THEN /\ lastOp' = [op |-> "render", n |-> memo.comp, noop |-> TRUE]
             /\ UNCHANGED <<memo, fn, stack>>
        ELSE /\ memo' = [ref |-> ref, comp |-> c]
             /\ fn' = [fn EXCEPT ![c] = "flatten"]
             /\ stack' = << ExecFrame(c) >>
             /\ lastOp' = [op |-> "render", n |-> c, noop |-> FALSE]
  /\ trace' = << >>
  /\ delivered' = << >>
  /\ UNCHANGED <<scen, styleProp, gotFresh, getters, error, mapping,
                 interopFunctions, unsubscribed, value, subscriptions,
                 dependencies, waiting, fresh, context, immediates,
                 flatStyle, styleMetaMap, burstSets, phase, lastReads,
                 detached, cleaned, burstExec>>

\* globalCssInterop(component, mapping): getNormalizeConfig(mapping) and,
\* when it returns, interopFunctions.set(component, ...).  An exception
\* leaves the module without an entry for the component.
globalCssInterop ==
  /\ Idle /\ phase = "task"
  /\ scen = "config"
  /\ lastOp.op = "init"
  /\ LET r == getNormalizeConfig(mapping)
     IN IF r.thrown
        THEN error' = "Error" /\ UNCHANGED interopFunctions
        ELSE interopFunctions' = [config |-> r.config,
                                  dependencies |-> r.dependencies,
                                  sources |-> r.sources]
             /\ UNCHANGED error
  /\ lastOp' = [op |-> "globalCssInterop", n |-> "R", noop |-> FALSE]
  /\ UNCHANGED <<scen, styleProp, gotFresh, getters, mapping, memo,
                 unsubscribed, fn, value, subscriptions, dependencies,
                 waiting, fresh, context, stack, immediates, flatStyle,
                 styleMetaMap, burstSets, phase, trace, lastReads, delivered,
                 detached, cleaned, burstExec>>

\* Signal.set(nextValue), called by the client on a plain Signal: the
\* Object.is test and the assignment; the two pulses and the deferred
\* delivery follow as SetStaleUp, SetStaleDown and SetDefer.
SetCall(s, v) ==
  /\ Idle /\ phase = "task"
  /\ AllCreated
  /\ s \in SignalsOf(scen)
  /\ v \in ValsOf(s)
  /\ Len(burstSets) < MaxBurst
  /\ delivered' = << >>
  /\ IF ObjectIs(value[s], v)
     THEN /\ lastOp' = [op |-> "set", n |-> s, noop |-> TRUE]
          /\ trace' = << >>
          /\ UNCHANGED <<value, stack, burstSets>>
     ELSE /\ value' = [value EXCEPT ![s] = v]
          /\ stack' = << SetFrame(s) >>
          /\ lastOp' = [op |-> "set", n |-> s, noop |-> FALSE]
          /\ trace' = << SetEvent(s, CompSubscribers(s)) >>
          /\ burstSets' = Append(burstSets, s)
  /\ UNCHANGED <<scen, styleProp, gotFresh, getters, error, mapping,
                 interopFunctions, memo, unsubscribed, fn, subscriptions,
                 dependencies, waiting, fresh,
                 context, immediates, flatStyle, styleMetaMap, phase,
                 lastReads, detached, cleaned, burstExec>>

\* Signal.subscribe(callback)
Subscribe(n, cb) ==
  /\ Idle /\ phase = "task"
  /\ n \in CallbackTargets(scen)
  /\ Created(n)
  /\ cb \in Callbacks
  /\ ~Has(subscriptions[n], cb)
  /\ subscriptions' = [subscriptions EXCEPT ![n] = SetAdd(@, cb)]
  /\ detached' = [detached EXCEPT ![n] = @ \ {cb}]
  /\ unsubscribed' = [unsubscribed EXCEPT ![n] = @ \ {cb}]
  /\ lastOp' = [op |-> "subscribe", n |-> n, noop |-> FALSE]
  /\ trace' = << >>
  /\ delivered' = << >>
  /\ UNCHANGED <<scen, styleProp, gotFresh, getters, error, mapping,
                 interopFunctions, memo, fn, value, dependencies, waiting, fresh,
                 context,
                 stack, immediates, flatStyle, styleMetaMap, burstSets,
                 phase, lastReads, cleaned, burstExec>>

\* mutant of Unsubscribed: unsubscribe leaves the Set as it is
UnsubscribedNothing(n, cb) == subscriptions

\* Signal.unsubscribe(subscription), also the function subscribe() returns:
\* subscriptions.delete(subscription)
Unsubscribed(n, cb) ==
  [subscriptions EXCEPT ![n] = Compact(SetDelete(@, cb))]

Unsubscribe(n, cb) ==
  /\ Idle /\ phase = "task"
  /\ n \in UnsubscribeTargets(scen)
  /\ cb \in Callbacks
  /\ Has(subscriptions[n], cb)
  /\ subscriptions' = Unsubscribed(n, cb)
  /\ unsubscribed' = [unsubscribed EXCEPT ![n] = @ \cup {cb}]
  /\ lastOp' = [op |-> "unsubscribe", n |-> n, noop |-> FALSE]
  /\ trace' = << >>
  /\ delivered' = << >>
  /\ UNCHANGED <<scen, styleProp, gotFresh, getters, error, mapping,
                 interopFunctions, memo, fn, value, dependencies, waiting, fresh,
                 context, stack, immediates, flatStyle, styleMetaMap,
                 burstSets, phase, lastReads, detached, cleaned, burstExec>>

\* mutant of ClearSubscriptions: cleanup leaves the Set as it is
ClearNothing(n) == subscriptions

\* Signal.cleanup, also what Computation.cleanup is (the Computation object
\* spreads the Signal's members): subscriptions.clear().
ClearSubscriptions(n) == [subscriptions EXCEPT ![n] = << >>]

CleanupCall(n) ==
  /\ Idle /\ phase = "task"
  /\ AllCreated
  /\ n \in CleanupTargets(scen)
  /\ n \notin cleaned
  /\ subscriptions' = ClearSubscriptions(n)
  /\ detached' = [detached EXCEPT ![n] = @ \cup (Range(subscriptions[n]) \ {Empty})]
  /\ cleaned' = cleaned \cup {n}
  /\ lastOp' = [op |-> "cleanup", n |-> n, noop |-> FALSE]
  /\ trace' = << >>
  /\ delivered' = << >>
  /\ UNCHANGED <<scen, styleProp, gotFresh, getters, error, mapping,
                 interopFunctions, memo, unsubscribed, fn, value, dependencies,
                 waiting, fresh, context,
                 stack, immediates, flatStyle, styleMetaMap, burstSets,
                 phase, lastReads, burstExec>>

\* createCSSVariableSignal.set(nextValue): cleanup() unless nextValue is
\* undefined, then signal.set(nextValue).  When cleanup() throws, the
\* exception leaves set() before signal.set is reached.  (call: the
\* top-level call that makes this set, for lastOp.)
CssVarSet(v, nv, call) ==
  IF nv # Undefined /\ CleanupThrows(v)
  THEN /\ subscriptions' = CssVarCleanupThrown(v)
       /\ error' = "TypeError"
       /\ lastOp' = call @@ [noop |-> FALSE]
       /\ trace' = << >>
       /\ UNCHANGED <<value, stack, burstSets>>
  ELSE /\ subscriptions' = IF nv # Undefined THEN CssVarCleanup(v)
                           ELSE subscriptions
       /\ UNCHANGED error
       /\ IF ObjectIs(value[v], nv)
          THEN /\ lastOp' = call @@ [noop |-> TRUE]
               /\ trace' = << >>
               /\ UNCHANGED <<value, stack, burstSets>>
          ELSE /\ value' = [value EXCEPT ![v] = nv]
               /\ stack' = << SetFrame(v) >>
               /\ lastOp' = call @@ [noop |-> FALSE]
               /\ trace' = << SetEvent(v, CompSubscribers(v)) >>
               /\ burstSets' = Append(burstSets, v)

\* context.variables[key].set(nextValue) called by the client
VarSet(v, nv) ==
  /\ Idle /\ phase = "task"
  /\ AllCreated
  /\ v \in VarTargets(scen)
  /\ nv \in ValsOf(v)
  /\ Len(burstSets) < MaxBurst
  /\ delivered' = << >>
  /\ CssVarSet(v, nv, [op |-> "set", n |-> v, arg |-> nv])
  /\ UNCHANGED <<scen, styleProp, gotFresh, getters, mapping,
                 interopFunctions, memo, unsubscribed, fn, dependencies, waiting,
                 fresh, context, immediates, flatStyle, styleMetaMap, phase,
                 lastReads, detached, cleaned, burstExec>>

\* useStyledProps: hasInlineVariables and variables, from the metadata of
\* the flattened style (if (meta.variables) ...).  flattenStyle gives the
\* metadata a variables object only when a fragment declared a variable.
hasInlineVariables(meta) == DOMAIN meta.variables # {}

\* useStyledProps, the variable sync of one pass over the component whose
\* style Computation is F: when a variable is declared,
\* context.variables[key].set(value) for the declared variable (--gap, the
\* one variable of the client, whose Signal in the component's context is
\* childVar), and set(undefined) for every other key the context holds
\* (there is none).  Without a declared variable nothing is done.
StyledPropsPass ==
  /\ scen = "styled"
  /\ Idle /\ phase = "task"
  /\ AllCreated
  /\ Len(burstSets) < MaxBurst
  /\ delivered' = << >>
  /\ LET meta == styleMetaMap["F"]
         call == [op |-> "pass", n |-> "childVar",
                  declared |-> meta.variables, was |-> value["childVar"]]
     IN IF hasInlineVariables(meta)
        THEN CssVarSet(ContextVariable("--gap"), meta.variables["--gap"], call)
        ELSE /\ lastOp' = call @@ [noop |-> TRUE]
             /\ trace' = << >>
             /\ UNCHANGED <<subscriptions, error, value, stack, burstSets>>
  /\ UNCHANGED <<scen, styleProp, gotFresh, getters, mapping,
                 interopFunctions, memo, unsubscribed, fn, dependencies, waiting,
                 fresh, context, immediates, flatStyle, styleMetaMap, phase,
                 lastReads, detached, cleaned, burstExec>>

\* The interaction handlers useStyledProps installs: onPressIn/onPressOut
\* when a pseudo-class :active was met, onHoverIn/onHoverOut for :hover,
\* onFocus/onBlur for :focus.
Requires(meta, pseudo) ==
  pseudo \in DOMAIN meta.pseudoClasses /\ meta.pseudoClasses[pseudo]
Installed(meta) ==
  (IF Requires(meta, "active") THEN {"onPressIn", "onPressOut"} ELSE {})
    \cup (IF Requires(meta, "hover") THEN {"onHoverIn", "onHoverOut"} ELSE {})
    \cup (IF Requires(meta, "focus") THEN {"onFocus", "onBlur"} ELSE {})
Handlers ==
  {"onPressIn", "onPressOut", "onHoverIn", "onHoverOut", "onFocus", "onBlur"}
\* context.interaction.<name> that the handler sets, and the value
InteractionOf(h) ==
  CASE h \in {"onPressIn", "onPressOut"} -> "active"
    [] h \in {"onHoverIn", "onHoverOut"} -> "hover"
    [] h \in {"onFocus", "onBlur"}       -> "focus"
Entering(h) == h \in {"onPressIn", "onHoverIn", "onFocus"}
\* propsRef.current.<name>?.(event): the prop the installed handler calls
\* first.  The handler installed as onHoverOut calls onHoverIn.
OwnHandler(h) == IF h = "onHoverOut" THEN "onHoverIn" ELSE h
\* The handlers the component was given as props.
Supplied == Handlers

\* An event reaches the handler h that useStyledProps installed.
HandlerCall(h) ==
  /\ scen = "styled"
  /\ Idle /\ phase = "task"
  /\ AllCreated
  /\ h \in Installed(styleMetaMap["F"])
  /\ Len(burstSets) < MaxBurst
  /\ delivered' = << >>
  /\ LET s == InteractionOf(h)
         v == Entering(h)
         call == [op |-> "set", n |-> s, handler |-> h, arg |-> v,
                  called |-> IF OwnHandler(h) \in Supplied
                             THEN << OwnHandler(h) >> ELSE << >>]
     IN IF ObjectIs(value[s], v)
        THEN /\ lastOp' = call @@ [noop |-> TRUE]
             /\ trace' = << >>
             /\ UNCHANGED <<value, stack, burstSets>>
        ELSE /\ value' = [value EXCEPT ![s] = v]
             /\ stack' = << SetFrame(s) >>
             /\ lastOp' = call @@ [noop |-> FALSE]
             /\ trace' = << SetEvent(s, CompSubscribers(s)) >>
             /\ burstSets' = Append(burstSets, s)
  /\ UNCHANGED <<scen, styleProp, gotFresh, getters, error, mapping,
                 interopFunctions, memo, unsubscribed, fn, subscriptions,
                 dependencies, waiting, fresh,
                 context, immediates, flatStyle, styleMetaMap, phase,
                 lastReads, detached, cleaned, burstExec>>

\* createColorSchemeSignal: the Signal a method writes.  set is
\* colorScheme.get() === "light" ? light.set : dark.set; setLight is
\* light.set, and setDark is light.set as well.
ColorSchemeTarget(method) ==
  CASE method = "setLight" -> "defLight"
    [] method = "setDark"  -> "defLight"
    [] method = "set"      -> IF value["colorScheme"] = "light"
                              THEN "defLight" ELSE "defDark"

\* defaultVariables[key].set(v), .setLight(v), .setDark(v)
ColorSchemeSet(method, v) ==
  /\ scen = "root"
  /\ Idle /\ phase = "task"
  /\ AllCreated
  /\ method \in ColorSchemeMethods
  /\ v \in SchemeVals
  /\ Len(burstSets) < MaxBurst
  /\ delivered' = << >>
  /\ LET s == ColorSchemeTarget(method)
         op == [op |-> "set", n |-> s, method |-> method, arg |-> v,
                scheme |-> value["colorScheme"],
                light |-> value["defLight"], dark |-> value["defDark"]]
     IN IF ObjectIs(value[s], v)
        THEN /\ lastOp' = op @@ [noop |-> TRUE]
             /\ trace' = << >>
             /\ UNCHANGED <<value, stack, burstSets>>
        ELSE /\ value' = [value EXCEPT ![s] = v]
             /\ stack' = << SetFrame(s) >>
             /\ lastOp' = op @@ [noop |-> FALSE]
             /\ trace' = << SetEvent(s, CompSubscribers(s)) >>
             /\ burstSets' = Append(burstSets, s)
  /\ UNCHANGED <<scen, styleProp, gotFresh, getters, error, mapping,
                 interopFunctions, memo, unsubscribed, fn, subscriptions,
                 dependencies, waiting, fresh,
                 context, immediates, flatStyle, styleMetaMap, phase,
                 lastReads, detached, cleaned, burstExec>>

\* createComponentContext(...).cleanup(): cleanup() of every variable the
\* context has created (here the one variable, created when it was read).
ContextCleanup(v) ==
  /\ Idle /\ phase = "task"
  /\ AllCreated
  /\ v \in ContextCleanupTargets(scen)
  /\ v \notin cleaned
  /\ subscriptions' = CssVarCleanup(v)
  /\ cleaned' = cleaned \cup {v}
  /\ lastOp' = [op |-> "contextCleanup", n |-> v, noop |-> FALSE]
  /\ trace' = << >>
  /\ delivered' = << >>
  /\ UNCHANGED <<scen, styleProp, gotFresh, getters, error, mapping,
                 interopFunctions, memo, unsubscribed, fn, value, dependencies,
                 waiting, fresh, context, stack, immediates, flatStyle,
                 styleMetaMap, burstSets, phase, lastReads, detached,
                 burstExec>>

\* mutant of DeliveredValue: the closure passes the value its own set stored
DeliveredStored(entry) == entry.stored

\* The closure queued by setImmediate in set(): every function subscriber
\* the Set holds now is called with the value the Signal holds now.  The
\* queued closures run one after the other once the synchronous task has
\* returned; client code runs again when the queue is empty.  (subs, the
\* callbacks subscribed when the closure was queued, is history.)
DeliveredValue(entry) == value[entry.sig]

Deliveries(entry) ==
  LET fs == SelectSeq(subscriptions[entry.sig], IsCallback)
  IN [i \in 1 .. Len(fs) |->
        [cb |-> fs[i], sig |-> entry.sig, arg |-> DeliveredValue(entry),
         stored |-> entry.stored]]

RunImmediate ==
  /\ Idle
  /\ immediates # << >>
  /\ delivered' = Deliveries(Head(immediates))
  /\ immediates' = Tail(immediates)
  /\ phase' = IF Tail(immediates) = << >> THEN "task" ELSE "check"
  /\ burstSets' = << >>
  /\ burstExec' = ZeroExec
  /\ lastOp' = [op |-> "deliver", n |-> Head(immediates).sig, noop |-> FALSE,
                subs |-> Head(immediates).subs]
  /\ trace' = << >>
  /\ UNCHANGED <<scen, styleProp, gotFresh, getters, error, mapping,
                 interopFunctions, memo, unsubscribed, fn, value, subscriptions,
                 dependencies, waiting, fresh,
                 context, stack, flatStyle, styleMetaMap, lastReads,
                 detached, cleaned>>

\* ------------------------------------------ steps of the running task
stepUnchanged ==
  UNCHANGED <<scen, styleProp, mapping, interopFunctions, memo, phase,
              burstSets, lastOp, delivered, cleaned, unsubscribed>>
histUnchanged == stepUnchanged /\ UNCHANGED <<gotFresh, getters, error>>

\* mutant of SetPulse: the closing pulse is sent as +1
SetPulseUpOnly(pc) == 1

\* the two pulses of set(): stale(1, true) and then stale(-1, true)
SetPulse(pc) == IF pc = "up" THEN 1 ELSE -1

\* set(): stale(1, true)
SetStaleUp ==
  /\ ~Idle /\ Top.k = "set" /\ Top.pc = "up"
  /\ stack' = Push(ReplaceTop(stack, [Top EXCEPT !.pc = "down"]),
                   LoopFrame(Top.n, SetPulse(Top.pc), TRUE))
  /\ histUnchanged
  /\ UNCHANGED <<fn, value, subscriptions, dependencies, waiting, fresh,
                 context, immediates, flatStyle, styleMetaMap, trace,
                 lastReads, detached, burstExec>>

\* set(): stale(-1, true)
SetStaleDown ==
  /\ ~Idle /\ Top.k = "set" /\ Top.pc = "down"
  /\ stack' = Push(ReplaceTop(stack, [Top EXCEPT !.pc = "defer"]),
                   LoopFrame(Top.n, SetPulse(Top.pc), TRUE))
  /\ histUnchanged
  /\ UNCHANGED <<fn, value, subscriptions, dependencies, waiting, fresh,
                 context, immediates, flatStyle, styleMetaMap, trace,
                 lastReads, detached, burstExec>>

\* History: the callbacks subscribed to n when its set() queued a delivery,
\* kept for the nodes the client unsubscribes from.
SubscribedAtSet(n) ==
  IF n \in UnsubscribeTargets(scen)
  THEN Range(SelectSeq(subscriptions[n], IsCallback))
  ELSE {}

\* set(): setImmediate(...) and return
SetDefer ==
  /\ ~Idle /\ Top.k = "set" /\ Top.pc = "defer"
  /\ immediates' = Append(immediates,
       [sig |-> Top.n, stored |-> value[Top.n],
        subs |-> SubscribedAtSet(Top.n)])
  /\ stack' = Pop(stack)
  /\ subscriptions' = Settle(subscriptions, Pop(stack))
  /\ trace' = Append(trace, ReturnEvent(Top.n))
  /\ histUnchanged
  /\ UNCHANGED <<fn, value, dependencies, waiting, fresh, context,
                 flatStyle, styleMetaMap, lastReads, detached, burstExec>>

\* Signal.stale: for (const subscriber of subscriptions) -- the loop ends
LoopEnd ==
  /\ ~Idle /\ Top.k = "loop"
  /\ Top.i > Len(subscriptions[Top.n])
  /\ stack' = Pop(stack)
  /\ histUnchanged
  /\ UNCHANGED <<fn, value, subscriptions, dependencies, waiting, fresh,
                 context, immediates, flatStyle, styleMetaMap, trace,
                 lastReads, detached, burstExec>>

\* Signal.stale: a function subscriber (or a deleted entry) is passed over
LoopSkip ==
  /\ ~Idle /\ Top.k = "loop"
  /\ Top.i <= Len(subscriptions[Top.n])
  /\ ~IsComp(subscriptions[Top.n][Top.i])
  /\ stack' = ReplaceTop(stack, [Top EXCEPT !.i = @ + 1])
  /\ histUnchanged
  /\ UNCHANGED <<fn, value, subscriptions, dependencies, waiting, fresh,
                 context, immediates, flatStyle, styleMetaMap, trace,
                 lastReads, detached, burstExec>>

\* Signal.stale: subscriber.stale(change, fresh)
LoopDeliver ==
  /\ ~Idle /\ Top.k = "loop"
  /\ Top.i <= Len(subscriptions[Top.n])
  /\ IsComp(subscriptions[Top.n][Top.i])
  /\ LET c == subscriptions[Top.n][Top.i]
     IN /\ stack' = Push(ReplaceTop(stack, [Top EXCEPT !.i = @ + 1]),
                         StaleFrame(c, Top.change, Top.fr, Top.n))
        /\ trace' = Append(trace, PulseEvent(Top.n, c, Top.change, Top.fr))
        /\ gotFresh' = [gotFresh EXCEPT ![c] = @ \/ Top.fr]
  /\ stepUnchanged
  /\ UNCHANGED <<getters, error>>
  /\ UNCHANGED <<fn, value, subscriptions, dependencies, waiting, fresh,
                 context, immediates, flatStyle, styleMetaMap,
                 lastReads, detached, burstExec>>

\* mutant of StaleIgnored: every pulse is dropped while waiting is 0
StaleIgnoredAnyChange(c, change) == waiting[c] = 0

\* mutant of StaleIgnored: no pulse is dropped
StaleIgnoredNever(c, change) == FALSE

\* Computation.stale: if (!this.waiting && change < 0) return
StaleIgnored(c, change) == waiting[c] = 0 /\ change < 0

StaleIgnore ==
  /\ ~Idle /\ Top.k = "stale" /\ Top.pc = "start"
  /\ StaleIgnored(Top.n, Top.change)
  /\ stack' = Pop(stack)
  /\ trace' = Append(trace, IgnoreEvent(Top.src, Top.n, Top.change, Top.fr))
  /\ histUnchanged
  /\ UNCHANGED <<fn, value, subscriptions, dependencies, waiting, fresh,
                 context, immediates, flatStyle, styleMetaMap,
                 lastReads, detached, burstExec>>

\* mutant of NotifiesDownstream: staleness is not pushed ahead
NotifiesDownstreamNever(c, change) == FALSE

\* Computation.stale: if (!this.waiting && change > 0) signal.stale(1, false)
NotifiesDownstream(c, change) == waiting[c] = 0 /\ change > 0

StalePropagate ==
  /\ ~Idle /\ Top.k = "stale" /\ Top.pc = "start"
  /\ ~StaleIgnored(Top.n, Top.change)
  /\ NotifiesDownstream(Top.n, Top.change)
  /\ stack' = Push(ReplaceTop(stack, [Top EXCEPT !.pc = "acc"]),
                   LoopFrame(Top.n, 1, FALSE))
  /\ histUnchanged
  /\ UNCHANGED <<fn, value, subscriptions, dependencies, waiting, fresh,
                 context, immediates, flatStyle, styleMetaMap, trace,
                 lastReads, detached, burstExec>>

\* mutant of AccumulateFresh: the flag of the last pulse replaces the flag
AccumulateFreshLast(old, fr) == fr

\* Computation.stale: this.waiting += change; this.fresh ||= fresh; and,
\* when waiting is back to 0, execute() if fresh
AccumulateFresh(old, fr) == old \/ fr

\* mutant of Settled: every pulse counts as the last one awaited
SettledAlways(w) == TRUE

\* Computation.stale: if (!this.waiting)
Settled(w) == w = 0

StaleAccumulate ==
  /\ ~Idle /\ Top.k = "stale"
  /\ IF Top.pc = "start"
     THEN ~StaleIgnored(Top.n, Top.change)
          /\ ~NotifiesDownstream(Top.n, Top.change)
     ELSE Top.pc = "acc"
  /\ LET c == Top.n
         w == waiting[c] + Top.change
         f == AccumulateFresh(fresh[c], Top.fr)
     IN /\ waiting' = [waiting EXCEPT ![c] = w]
        /\ fresh' = [fresh EXCEPT ![c] = f]
        /\ stack' = IF ~Settled(w) THEN Pop(stack)
                    ELSE IF f
                         THEN Push(ReplaceTop(stack, [Top EXCEPT !.pc = "close"]),
                                   ExecFrame(c))
                         ELSE ReplaceTop(stack, [Top EXCEPT !.pc = "close"])
  /\ histUnchanged
  /\ UNCHANGED <<fn, value, subscriptions, dependencies, context,
                 immediates, flatStyle, styleMetaMap, trace,
                 lastReads, detached, burstExec>>

\* Computation.stale: signal.stale(-1, false), the last statement
StaleClose ==
  /\ ~Idle /\ Top.k = "stale" /\ Top.pc = "close"
  /\ stack' = ReplaceTop(stack, LoopFrame(Top.n, -1, FALSE))
  /\ histUnchanged
  /\ UNCHANGED <<fn, value, subscriptions, dependencies, waiting, fresh,
                 context, immediates, flatStyle, styleMetaMap, trace,
                 lastReads, detached, burstExec>>

\* mutant of cleanup: the old subscriptions are kept
cleanupKeepsEdges(c) == subscriptions

\* cleanup(running): leave every Set in dependencies
cleanup(c) ==
  [n \in Nodes |-> IF n \in dependencies[c]
                   THEN SetDelete(subscriptions[n], c)
                   ELSE subscriptions[n]]

\* mutant of Track: get() does not add the running Computation
TrackNothing(subs, reads, running) == subs

\* Signal.get inside fn(): the Computation on top of the tracking stack
\* is added to the Set of every Signal read
Track(subs, reads, running) ==
  [n \in Nodes |-> IF n \in Range(reads) THEN SetAdd(subs[n], running)
                   ELSE subs[n]]

\* execute(): cleanup, context.push, waiting = 0, fresh = false, fn(), and
\* the Object.is test and assignment of this.set(...)
FnThrows(c) == fn[c] = "flatten" /\ RunFn(fn[c], c).threw
InvokeEvents(c, r) ==
  IF fn[c] = "flatten" /\ r.invoked > 0
  THEN << InvokeEvent(c, r.invoked) >> ELSE << >>

\* mutant of ResetFresh: execute() leaves the fresh flag as it found it
ResetFreshNever(c) == fresh

\* execute(): this.fresh = false
ResetFresh(c) == [fresh EXCEPT ![c] = FALSE]

ExecuteStart ==
  /\ ~Idle /\ Top.k = "exec" /\ Top.pc = "start"
  /\ ~FnThrows(Top.n)
  /\ LET c == Top.n
         r == RunFn(fn[c], c)
         ctx == Append(context, c)
         running == ctx[Len(ctx)]
     IN /\ context' = ctx
        /\ subscriptions' = Track(cleanup(c), r.reads, running)
        /\ dependencies' = [d \in Comps |->
                              IF d = running THEN Range(r.reads)
                              ELSE IF d = c THEN {} ELSE dependencies[d]]
        /\ waiting' = [waiting EXCEPT ![c] = 0]
        /\ fresh' = ResetFresh(c)
        /\ gotFresh' = [gotFresh EXCEPT ![c] = FALSE]
        /\ getters' = IF fn[c] = "flatten"
                      THEN [getters EXCEPT ![c] = r.getters] ELSE getters
        /\ detached' = [n \in Nodes |->
                          IF n \in Range(r.reads) THEN detached[n] \ {running}
                          ELSE detached[n]]
        /\ lastReads' = [lastReads EXCEPT ![c] = Range(r.reads)]
        /\ burstExec' = IF lastOp.op = "set"
                         THEN [burstExec EXCEPT ![c] = @ + 1] ELSE burstExec
        /\ flatStyle' = IF fn[c] = "flatten"
                        THEN [flatStyle EXCEPT ![c] = r.style] ELSE flatStyle
        /\ styleMetaMap' = IF fn[c] = "flatten"
                           THEN [styleMetaMap EXCEPT ![c] = r.meta]
                           ELSE styleMetaMap
        /\ IF ObjectIs(value[c], r.result)
           THEN /\ stack' = ReplaceTop(stack, [Top EXCEPT !.pc = "pop"])
                /\ trace' = Append(trace \o InvokeEvents(c, r),
                     ExecEvent(c, lastReads[c],
                               {d \in Range(r.reads) \cap Comps : waiting[d] > 0}))
                /\ UNCHANGED value
           ELSE /\ value' = [value EXCEPT ![c] = r.result]
                /\ stack' = Push(ReplaceTop(stack, [Top EXCEPT !.pc = "pop"]),
                                 SetFrame(c))
                /\ trace' = trace \o InvokeEvents(c, r) \o
                     << ExecEvent(c, lastReads[c],
                                  {d \in Range(r.reads) \cap Comps : waiting[d] > 0}),
                        SetEvent(c, CompSubscribers(c)) >>
  /\ stepUnchanged
  /\ UNCHANGED <<fn, immediates, error>>

\* execute() when fn() throws: cleanup, context.push, waiting = 0 and
\* fresh = false are done and the Signals read before the throw have the
\* Computation in their Sets; this.set and context.pop() are not reached,
\* and the exception ends every call on the stack.
ExecuteThrow ==
  /\ ~Idle /\ Top.k = "exec" /\ Top.pc = "start"
  /\ FnThrows(Top.n)
  /\ LET c == Top.n
         r == RunFn(fn[c], c)
         ctx == Append(context, c)
         running == ctx[Len(ctx)]
     IN /\ context' = ctx
        /\ subscriptions' = Settle(Track(cleanup(c), r.reads, running), << >>)
        /\ dependencies' = [d \in Comps |->
                              IF d = running THEN Range(r.reads)
                              ELSE IF d = c THEN {} ELSE dependencies[d]]
        /\ waiting' = [waiting EXCEPT ![c] = 0]
        /\ fresh' = ResetFresh(c)
        /\ gotFresh' = [gotFresh EXCEPT ![c] = FALSE]
        /\ lastReads' = [lastReads EXCEPT ![c] = Range(r.reads)]
        /\ trace' = Append(trace, ExecEvent(c, lastReads[c], {}))
  /\ stack' = << >>
  /\ error' = "TypeError"
  /\ stepUnchanged
  /\ UNCHANGED <<fn, value, immediates, flatStyle, styleMetaMap, getters,
                 detached, burstExec>>

\* A consumer reads flatStyle[key]: the getter returns the value, or calls
\* the function it was given and returns what that returns.  (The flat
\* style of a Computation whose fn threw never reaches a consumer.)
ReadProperty(c, key) ==
  /\ Idle /\ phase = "task"
  /\ scen = "lazy" /\ error = NoError
  /\ fn[c] = "flatten"
  /\ key \in DOMAIN flatStyle[c] \ {"transform"}
  /\ LET r == IF key \in DOMAIN getters[c] THEN Invoke(getters[c][key])
              ELSE [val |-> flatStyle[c][key], calls |-> 0]
     IN lastOp' = [op |-> "read", n |-> c, noop |-> FALSE, key |-> key,
                   val |-> r.val, calls |-> r.calls]
  /\ trace' = << >>
  /\ delivered' = << >>
  /\ UNCHANGED <<scen, styleProp, gotFresh, getters, error, mapping,
                 interopFunctions, memo, unsubscribed, value, subscriptions,
                 dependencies, waiting, fresh, context, stack, immediates,
                 flatStyle, styleMetaMap, burstSets, phase, lastReads,
                 detached, cleaned, burstExec, fn>>

\* execute(): context.pop()
ExecuteEnd ==
  /\ ~Idle /\ Top.k = "exec" /\ Top.pc = "pop"
  /\ context' = Pop(context)
  /\ stack' = Pop(stack)
  /\ subscriptions' = Settle(subscriptions, Pop(stack))
  /\ histUnchanged
  /\ UNCHANGED <<fn, value, dependencies, waiting, fresh, immediates,
                 flatStyle, styleMetaMap, trace, lastReads, detached,
                 burstExec>>

\* The values the client passes to set().  The burst client, whose
\* Computation only adds the two Signals, writes 0 and 1; the diamond
\* client writes 0, 1 and 2, the values with which one, the other or both
\* of A and B change.
SetVals(sc, s) ==
  CASE sc = "burst" /\ s = "R"   -> {0, 1}
    [] sc = "diamond" /\ s = "R" -> {0, 1, 2}
    [] OTHER                     -> ValsOf(s)

Next ==
  \/ \E c \in DOMAIN PlanOf(scen) : Create(c)
  \/ \E c \in UpdateTargets(scen) : \E f \in UpdateFns : Update(c, f)
  \/ \E s \in SignalsOf(scen) : \E v \in SetVals(scen, s) : SetCall(s, v)
  \/ \E n \in CallbackTargets(scen) : \E cb \in Callbacks : Subscribe(n, cb)
  \/ \E n \in UnsubscribeTargets(scen) : \E cb \in Callbacks : Unsubscribe(n, cb)
  \/ \E n \in CleanupTargets(scen) : CleanupCall(n)
  \/ \E v \in VarTargets(scen) : \E nv \in ValsOf(v) : VarSet(v, nv)
  \/ \E v \in ContextCleanupTargets(scen) : ContextCleanup(v)
  \/ \E m \in ColorSchemeMethods : \E v \in SchemeVals : ColorSchemeSet(m, v)
  \/ StyledPropsPass
  \/ \E h \in Handlers : HandlerCall(h)
  \/ globalCssInterop
  \/ Render
  \/ RunImmediate
  \/ SetStaleUp
  \/ SetStaleDown
  \/ SetDefer
  \/ LoopEnd
  \/ LoopSkip
  \/ LoopDeliver
  \/ StaleIgnore
  \/ StalePropagate
  \/ StaleAccumulate
  \/ StaleClose
  \/ ExecuteStart
  \/ ExecuteThrow
  \/ ExecuteEnd
  \/ \E key \in PropertyKeys : ReadProperty("L", key)

Spec == Init /\ [][Next]_vars

TypeOK ==
  /\ scen \in Scenarios
  /\ \A c \in Comps : waiting[c] \in Int /\ fresh[c] \in BOOLEAN
  /\ \A n \in Nodes : Range(subscriptions[n]) \subseteq Comps \cup Callbacks \cup {Empty}

\* ================================================================ claims
ExecEvents(c) == {i \in 1 .. Len(trace) : trace[i].e = "exec" /\ trace[i].a = c}
ExecCount(c) == Cardinality(ExecEvents(c))
PulsesTo(c) == {i \in 1 .. Len(trace) : trace[i].e = "pulse" /\ trace[i].b = c}
\* the top-level call in progress (or just finished) is an effective set()
InSet == lastOp.op = "set" /\ ~lastOp.noop

\* C1: in the diamond (C reads A and B, both read R) one effective R.set
\* executes C at most once, and C's function never runs while A or B is
\* still waiting to re-execute.
C1_DiamondGlitchFree ==
  (scen = "diamond" /\ InSet /\ cleaned = {}) =>
     /\ ExecCount("C") <= 1
     /\ \A i \in ExecEvents("C") : trace[i].s2 = {}

\* C1 witness: R.set changed both A and B, and C has run once.
C1_Witness ==
  /\ scen = "diamond" /\ InSet /\ cleaned = {} /\ Idle
  /\ ExecCount("A") = 1 /\ ExecCount("B") = 1 /\ ExecCount("C") = 1
  /\ \E i \in PulsesTo("C") : trace[i].a = "A" /\ trace[i].fr
  /\ \E i \in PulsesTo("C") : trace[i].a = "B" /\ trace[i].fr

\* the burst sets each Signal at most once
DistinctBurst == Cardinality(Range(burstSets)) = Len(burstSets)

\* C2 as stated: a Computation reading R and S, both set in one
\* synchronous burst, re-executes at most once in that burst.
C2_Original ==
  (scen = "burst" /\ DistinctBurst /\ cleaned = {}) => burstExec["E"] <= 1

\* C2 as amended: the Computation re-executes once per effective set(),
\* inside that call: after a burst of N sets it has re-executed N times.
C2_OncePerSet ==
  (scen = "burst" /\ cleaned = {}) =>
     /\ InSet => ExecCount("E") <= 1
     /\ burstExec["E"] <= Len(burstSets)
     /\ Idle => burstExec["E"] = Len(burstSets)

\* C2 witness: R and S were set in one task and E ran once for each.
C2_Witness ==
  /\ scen = "burst" /\ cleaned = {} /\ Idle
  /\ Range(burstSets) = {"R", "S"} /\ DistinctBurst
  /\ burstExec["E"] = 2

\* C3 as stated: for every graph, one effective set() executes every
\* Computation at most once and none runs while a Computation it reads is
\* still waiting.
C3_Original ==
  (InSet /\ cleaned = {}) =>
     \A c \in Comps :
        /\ ExecCount(c) <= 1
        /\ \A i \in ExecEvents(c) : trace[i].s2 = {}

\* C4: a flatten Computation is re-executed by a set() only if its most
\* recent execution read that Signal, and it is re-executed when it did.
C4_ReexecutedOnlyIfRead ==
  (scen = "flat" /\ InSet /\ cleaned = {}) =>
     /\ \A i \in ExecEvents("F") : lastOp.n \in trace[i].s1
     /\ (Idle /\ ExecCount("F") = 0) => lastOp.n \notin lastReads["F"]

\* C4 witness: hover is false, the viewport Signal changed and F did not
\* run.
C4_Witness ==
  /\ scen = "flat" /\ InSet /\ cleaned = {} /\ Idle
  /\ lastOp.n = "vh" /\ value["hover"] = FALSE
  /\ fn["F"] = "flatten" /\ ExecCount("F") = 0
  /\ "height" \notin DOMAIN flatStyle["F"]

\* an execution of c has run fn and its set, and is about to return
Executed(c) == ~Idle /\ Top.k = "exec" /\ Top.pc = "pop" /\ Top.n = c

\* C5: when an execution completes, the dependency set is the set of
\* Signals read by that execution, and the Computation is a subscriber of
\* exactly those Signals.
C5_DependenciesAreLastReads ==
  \A c \in Comps :
     Executed(c) =>
        /\ dependencies[c] = lastReads[c]
        /\ \A n \in Nodes : Has(subscriptions[n], c) <=> n \in lastReads[c]

\* C5 witness: D read R and A in its previous execution and only R now.
C5_Witness ==
  /\ Executed("D")
  /\ lastReads["D"] = {"R"}
  /\ \E i \in ExecEvents("D") : trace[i].s1 = {"R", "A"}

\* C6: set(v) with v Object.is-equal to the current value changes nothing,
\* on a plain Signal and for the set at the end of execute().
C6_Step ==
  /\ \A s \in PlainSignals : \A v \in ValsOf(s) :
        (SetCall(s, v) /\ value[s] = v) => UNCHANGED progVars
  /\ (ExecuteStart /\ RunFn(fn[Top.n], Top.n).result = value[Top.n]) =>
        /\ UNCHANGED <<value, immediates>>
        /\ Len(stack') = Len(stack)
        /\ \A c \in Comps \ {Top.n} : waiting'[c] = waiting[c] /\ fresh'[c] = fresh[c]
C6_EqualSetIsNoop == [][C6_Step]_vars

\* C6 witness: an equal value was set on a Signal that has a Computation
\* subscriber.
C6_Witness ==
  /\ lastOp.op = "set" /\ lastOp.noop /\ Idle
  /\ CompSubscribers(lastOp.n) # {}

\* the set event that a return event closes
SetIndex(j) ==
  CHOOSE i \in 1 .. j :
     /\ trace[i].e = "set" /\ trace[i].a = trace[j].a
     /\ \A k \in (i + 1) .. (j - 1) : ~(trace[k].e = "set" /\ trace[k].a = trace[j].a)

\* C7: when an effective set returns, every Computation that was a
\* subscriber has been delivered the +1 pulse and then the -1 pulse, the
\* delivery to the callbacks is queued, and no callback has been invoked.
C7_PulsesBeforeReturn ==
  /\ ~Idle => delivered = << >>
  /\ \A j \in 1 .. Len(trace) :
        trace[j].e = "ret" =>
          /\ \A c \in trace[SetIndex(j)].s1 :
               \E p, q \in SetIndex(j) .. j :
                  /\ p < q
                  /\ trace[p] = PulseEvent(trace[j].a, c, 1, TRUE)
                  /\ trace[q] = PulseEvent(trace[j].a, c, -1, TRUE)
          /\ \E k \in 1 .. Len(immediates) : immediates[k].sig = trace[j].a

\* C7 witness: a set on a Signal with a Computation and a callback
\* subscriber has returned.
C7_Witness ==
  /\ scen = "burst" /\ Idle /\ InSet
  /\ Has(subscriptions[lastOp.n], "cb1")
  /\ \E j \in 1 .. Len(trace) : trace[j].e = "ret" /\ trace[j].a = lastOp.n
                                 /\ trace[SetIndex(j)].s1 # {}

\* C8 as stated: a callback is invoked with the value stored by the set
\* that queued the delivery.
C8_Original ==
  \A i \in 1 .. Len(delivered) : delivered[i].arg = delivered[i].stored

\* C8 as amended: each delivery invokes every callback subscribed at that
\* time once, with the value the Signal holds at that time.
C8_DeliversCurrentValue ==
  lastOp.op = "deliver" =>
     /\ \A i \in 1 .. Len(delivered) :
           /\ delivered[i].sig = lastOp.n
           /\ delivered[i].arg = value[lastOp.n]
     /\ \A cb \in Callbacks :
           Cardinality({i \in 1 .. Len(delivered) : delivered[i].cb = cb})
             = IF Has(subscriptions[lastOp.n], cb) THEN 1 ELSE 0

\* C8 witness: a delivery queued by an earlier set ran after a second set
\* had stored another value.
C8_Witness ==
  /\ lastOp.op = "deliver"
  /\ \E i \in 1 .. Len(delivered) : delivered[i].arg # delivered[i].stored

\* C9 as stated: after cleanup() of a Computation no Signal holds it as a
\* subscriber, and no set() pulses or re-executes it.
C9_Original ==
  \A c \in cleaned \cap Comps :
     /\ \A n \in Nodes : ~Has(subscriptions[n], c)
     /\ PulsesTo(c) = {}
     /\ ExecCount(c) = 0

\* C10: Signal.cleanup() only empties the subscriber Set, and nothing that
\* it removed is pulsed or called by that Signal afterwards.
C10_Step ==
  \A n \in Nodes :
     CleanupCall(n) =>
        /\ subscriptions'[n] = << >>
        /\ \A m \in Nodes \ {n} : subscriptions'[m] = subscriptions[m]
        /\ UNCHANGED <<fn, value, dependencies, waiting, fresh, context,
                       stack, immediates, flatStyle, styleMetaMap, phase>>
        /\ delivered' = << >>
C10_NoLateDelivery ==
  /\ \A i \in 1 .. Len(delivered) : delivered[i].cb \notin detached[delivered[i].sig]
  /\ (~Idle /\ Top.k = "stale" /\ Top.pc = "start") => Top.n \notin detached[Top.src]
C10_CleanupIsSilent == [][C10_Step]_vars /\ []C10_NoLateDelivery

\* C10 witness: a delivery that was pending when the Signal was cleaned
\* up has run and called nobody.
C10_Witness ==
  /\ lastOp.op = "deliver" /\ lastOp.n \in cleaned
  /\ "cb1" \in detached[lastOp.n]
  /\ delivered = << >>

\* C11: once unsubscribe(callback) has run, the Signal does not invoke
\* that callback: not for a later set(), and not by the delivery of a set()
\* that was made before the unsubscribe and had not been delivered yet.
C11_NoCallAfterUnsubscribe ==
  \A i \in 1 .. Len(delivered) :
     delivered[i].cb \notin unsubscribed[delivered[i].sig]

\* C11 witness: the callback was subscribed when set() queued the
\* delivery, was unsubscribed before the delivery ran, and was not called.
C11_Witness ==
  /\ lastOp.op = "deliver"
  /\ "cb1" \in lastOp.subs
  /\ "cb1" \in unsubscribed[lastOp.n]
  /\ lastOp.n \notin cleaned
  /\ delivered = << >>

C13_Original ==
  (scen = "chain" /\ Idle /\ fn["X"] # NoFn /\ cleaned = {}
     /\ value["childVar"] = Undefined) =>
       value["X"] = CssVarGet("childVar").result

\* C14 as stated: when context.cleanup() has returned, the variable Signal
\* the context owns has no subscriber, and a later set() on it executes no
\* Computation.
C14_Original ==
  "childVar" \in cleaned =>
     /\ lastOp.op = "contextCleanup" => subscriptions["childVar"] = << >>
     /\ (InSet /\ lastOp.n = "childVar") => \A c \in Comps : ExecCount(c) = 0

\* C15 as stated: setting or cleaning up the child's variable, and the
\* child context's cleanup(), change neither the value nor the subscriber
\* set of the parent's Signal, so a Computation that reads the parent's
\* variable directly stays subscribed to it.
C15_Step ==
  ((\E nv \in ValsOf("childVar") : VarSet("childVar", nv))
      \/ ContextCleanup("childVar")) =>
        /\ value'["parentVar"] = value["parentVar"]
        /\ subscriptions'["parentVar"] = subscriptions["parentVar"]
C15_DirectReaderSubscribed ==
  (scen = "direct" /\ Idle /\ fn["Z"] # NoFn) =>
     Has(subscriptions["parentVar"], "Z")
C15_Original == [][C15_Step]_vars /\ []C15_DirectReaderSubscribed

\* ---- flatten: what the claims compare the flat style with
\* the fragments of the style prop in the order flattenStyle visits them
Visited == flattenStyle(styleProp, EmptyFlat).visited
\* the conditions of a fragment, evaluated on the current Signals
ConditionsHold(g) ==
  /\ testPseudoClasses(g.pseudoClasses).pass
  /\ testMedia(g.media, 1).pass
  /\ testContainerQuery(g.containerQuery)
\* the fragments whose conditions hold, in the order they are visited
Passing == SelectSeq(Visited, ConditionsHold)
Declares(g, key) == \E j \in 1 .. Len(g.style) : g.style[j].key = key
DeclaresStatic(g, key, v) ==
  \E j \in 1 .. Len(g.style) :
     /\ g.style[j].key = key
     /\ g.style[j].name = "static"
     /\ g.style[j].arg = v
DefinesVariable(g, name, v) ==
  \E j \in 1 .. Len(g.variables) :
     g.variables[j].key = name /\ g.variables[j].arg = v
Supplies(g, field, key) == key \in DOMAIN g[field]
\* the first of the passing fragments that has `key` in metadata `field`
FirstSupplier(field, key) ==
  CHOOSE i \in 1 .. Len(Passing) :
     /\ Supplies(Passing[i], field, key)
     /\ \A j \in 1 .. (i - 1) : ~Supplies(Passing[j], field, key)
\* the first of the passing fragments that defines the variable `name`
FirstDefiner(name) ==
  CHOOSE i \in 1 .. Len(Passing) :
     /\ \E v \in 1 .. 4 : DefinesVariable(Passing[i], name, v)
     /\ \A j \in 1 .. (i - 1) :
          \A v \in 1 .. 4 : ~DefinesVariable(Passing[j], name, v)
FlatColorOf(c) == flatStyle[c]["color"]

\* C16: with fragments {B:1, color red} and {B:2, color blue, :hover} the
\* flat style has color red while hover is false and color blue while it
\* is true, and every change of the hover Signal re-executes the flatten
\* Computation once.
C16_HoverGatesColor ==
  (scen = "flat" /\ Idle /\ fn["F"] # NoFn /\ cleaned = {}) =>
     /\ FlatColorOf("F") = IF value["hover"] THEN "blue" ELSE "red"
     /\ (InSet /\ lastOp.n = "hover") => ExecCount("F") = 1

\* C16 witness: hover went back to false, the Computation re-executed and
\* the color is red again.
C16_Witness ==
  /\ scen = "flat" /\ Idle /\ fn["F"] # NoFn /\ cleaned = {}
  /\ InSet /\ lastOp.n = "hover"
  /\ value["hover"] = FALSE
  /\ ExecCount("F") = 1
  /\ FlatColorOf("F") = "red"

\* C17: everything in the flat style and in its metadata comes from a
\* fragment whose conditions all hold: a fragment with a failing
\* pseudo-class, media or container condition contributes no property,
\* variable, animation key, transition key, container or requiresLayout.
C17_SkippedFragmentLeavesNothing ==
  Executed("F") =>
     LET meta == styleMetaMap["F"]
         P(i) == Passing[i]
         N == 1 .. Len(Passing)
     IN /\ \A key \in DOMAIN flatStyle["F"] : \E i \in N : Declares(P(i), key)
        /\ \A name \in DOMAIN meta.variables :
              \E i \in N : DefinesVariable(P(i), name, meta.variables[name])
        /\ \A k \in DOMAIN meta.animations :
              \E i \in N : Supplies(P(i), "animations", k)
        /\ \A k \in DOMAIN meta.transition :
              \E i \in N : Supplies(P(i), "transition", k)
        /\ DOMAIN meta.container # {} =>
              \E i \in N : DOMAIN P(i).container # {}
        /\ meta.requiresLayout => \E i \in N : P(i).requiresLayout

\* C17 witness: a fragment fails on :hover, one on its media query and one
\* on its container query, and only the unconditional fragment's color is
\* in the flat style.
C17_Witness ==
  /\ scen = "cascade" /\ Executed("F")
  /\ \E i \in 1 .. Len(Visited) :
        DOMAIN Visited[i].pseudoClasses # {}
          /\ ~testPseudoClasses(Visited[i].pseudoClasses).pass
  /\ \E i \in 1 .. Len(Visited) :
        Len(Visited[i].media) > 0 /\ ~testMedia(Visited[i].media, 1).pass
  /\ \E i \in 1 .. Len(Visited) :
        Len(Visited[i].containerQuery) > 0
          /\ ~testContainerQuery(Visited[i].containerQuery)
  /\ DOMAIN flatStyle["F"] = {"color"}
  /\ DOMAIN styleMetaMap["F"].animations = {}

\* C18 as stated: whatever the order and the nesting of the fragments in
\* the style prop, a property has the value declared by the fragment of
\* the highest specificity among the passing fragments that declare it.
C18_Original ==
  (scen = "cascade" /\ Executed("F")) =>
     \A i \in 1 .. Len(Passing) :
        \A v \in {"f1", "f2", "red"} :
           (/\ DeclaresStatic(Passing[i], "color", v)
            /\ \A j \in 1 .. Len(Passing) :
                  Declares(Passing[j], "color") =>
                    CompareFrom(Passing[i].specificity,
                                Passing[j].specificity, 1) >= 0)
             => FlatColorOf("F") = v

\* C19 as stated: an animations key, a transition key and the container's
\* names and type keep the value of the first passing fragment that
\* supplied them.
C19_Original ==
  (scen = "cascade" /\ Executed("F")) =>
     LET meta == styleMetaMap["F"]
     IN /\ \A k \in DOMAIN meta.animations :
              meta.animations[k] = Passing[FirstSupplier("animations", k)].animations[k]
        /\ \A k \in DOMAIN meta.transition :
              meta.transition[k] = Passing[FirstSupplier("transition", k)].transition[k]
        /\ \A k \in {"names", "type"} :
              (\E i \in 1 .. Len(Passing) : Supplies(Passing[i], "container", k)) =>
                 meta.container[k] = Passing[FirstSupplier("container", k)].container[k]

\* C20: a variable of the flat style has the value given by the first
\* passing fragment, in the order the fragments are visited, that defines
\* it, and a var() reference resolved after that sees this value.
C20_FirstVariableWins ==
  (scen = "cascade" /\ Executed("F")) =>
     LET meta == styleMetaMap["F"]
     IN /\ \A name \in DOMAIN meta.variables :
              DefinesVariable(Passing[FirstDefiner(name)], name,
                              meta.variables[name])
        /\ \A i \in 1 .. Len(Passing) :
              \A j \in 1 .. Len(Passing[i].style) :
                 LET p == Passing[i].style[j]
                 IN (/\ p.name = "var"
                     /\ p.arg \in DOMAIN meta.variables
                     /\ \A i2 \in (i + 1) .. Len(Passing) :
                          ~Declares(Passing[i2], p.key))
                      => flatStyle["F"][p.key] = meta.variables[p.arg]

\* C20 witness: two passing fragments define --gap, as 2 the one visited
\* first and as 1 the other, and the margin that the second one declares
\* as var(--gap) is 2.
C20_Witness ==
  /\ scen = "cascade" /\ Executed("F")
  /\ Len(Passing) = 2
  /\ DefinesVariable(Passing[1], "--gap", 2)
  /\ DefinesVariable(Passing[2], "--gap", 1)
  /\ styleMetaMap["F"].variables["--gap"] = 2
  /\ flatStyle["F"]["margin"] = 2

InvalidEntry(options) ==
  /\ options.truthy /\ options.typeof = "object"
  /\ options.target.typeof \notin {"boolean", "string"}
Registered == lastOp.op = "globalCssInterop"

\* C25: globalCssInterop ends with an error, and registers nothing, when the
\* mapping has an object entry whose target is neither a boolean nor a
\* string; otherwise it registers a configuration whose sources are the
\* keys of the entries that are not falsy.
C25_InvalidMappingIsFatal ==
  (scen = "config" /\ Registered) =>
     IF \E i \in 1 .. Len(mapping) : InvalidEntry(mapping[i])
     THEN error = "Error" /\ interopFunctions = NoConfig
     ELSE /\ error = NoError
          /\ interopFunctions # NoConfig
          /\ \A i \in 1 .. Len(mapping) :
                mapping[i].truthy <=>
                  \E j \in 1 .. Len(interopFunctions.sources) :
                     interopFunctions.sources[j] = MappingKeys[i]

\* C25 witness: a mapping with a well-formed first entry and an object
\* entry without target was rejected.
C25_Witness ==
  /\ scen = "config" /\ Registered
  /\ Len(mapping) = 2
  /\ mapping[1].truthy /\ ~InvalidEntry(mapping[1])
  /\ InvalidEntry(mapping[2])
  /\ error = "Error" /\ interopFunctions = NoConfig

\* ---- useComputation
\* C26 as stated: a render whose dependency list has the same elements as
\* the one before, under the same context, reuses the Computation: no
\* Computation is created and flattenStyle does not run.
C26_Original ==
  (scen = "render" /\ lastOp.op = "render" /\ memo.ref >= 2) =>
     /\ lastOp.noop
     /\ fn["M2"] = NoFn
     /\ ExecCount("M2") = 0

\* ---- freshness
\* stale() of c has brought waiting back to 0 in this step
WaitingReturnsToZero == StaleAccumulate /\ waiting'[Top.n] = 0
\* ... and the step calls execute()
CallsExecute ==
  Len(stack') = Len(stack) + 1 /\ stack'[Len(stack')] = ExecFrame(Top.n)
\* the last statement of stale() is about to run
Closing == ~Idle /\ Top.k = "stale" /\ Top.pc = "close"
SetEvents(c) == {i \in 1 .. Len(trace) : trace[i].e = "set" /\ trace[i].a = c}

C29_Step ==
  /\ WaitingReturnsToZero => (CallsExecute <=> gotFresh[Top.n])
  /\ Closing => stack' = ReplaceTop(stack, LoopFrame(Top.n, -1, FALSE))
C29_Quiet ==
  (scen = "quiet" /\ InSet /\ lastOp.n = "R" /\ SetEvents("B") = {}) =>
     /\ ExecCount("G") = 0 /\ ExecCount("H") = 0
     /\ (Idle /\ ExecCount("B") = 1) =>
           \E i \in PulsesTo("H") : trace[i] = PulseEvent("G", "H", -1, FALSE)

\* C29: freshness is OR-accumulated.  When waiting returns to 0 the
\* Computation executes if and only if one of the pulses delivered to it
\* since its last execution was fresh, and it always closes by sending -1 to
\* its subscribers; a Computation whose upstream Computation re-executed to
\* an equal value does not execute and still sends the -1.
C29_FreshIsOrAccumulated == [][C29_Step]_vars /\ []C29_Quiet

\* C29 witness: R changed, B = R div 2 re-executed to the value it had, G
\* did not execute and has sent -1 to H.
C29_Witness ==
  /\ scen = "quiet" /\ InSet /\ lastOp.n = "R" /\ Idle
  /\ ExecCount("B") = 1 /\ SetEvents("B") = {}
  /\ ExecCount("G") = 0
  /\ \E i \in PulsesTo("H") : trace[i] = PulseEvent("G", "H", -1, FALSE)

IgnoreEvents == {i \in 1 .. Len(trace) : trace[i].e = "ignore"}
C30_Step ==
  (~Idle /\ Top.k = "stale" /\ Top.pc = "start"
     /\ waiting[Top.n] = 0 /\ Top.change < 0) =>
        /\ UNCHANGED <<waiting, fresh, value, subscriptions, context>>
        /\ stack' = Pop(stack)
C30_WaitingIsNatural == \A c \in Comps : waiting[c] >= 0

\* C30: a -1 pulse that reaches a Computation whose waiting is 0 changes
\* neither waiting, fresh nor the value, reaches none of its subscribers and
\* executes nothing: stale() returns.  waiting is never negative.
C30_SpuriousNegativeIgnored == [][C30_Step]_vars /\ []C30_WaitingIsNatural

\* C30 witness: a -1 pulse reached a Computation whose waiting was 0, and
\* the call has returned.
C30_Witness ==
  /\ Idle /\ IgnoreEvents # {}
  /\ \A i \in IgnoreEvents : trace[i].change = -1
  /\ \A c \in Comps : waiting[c] = 0

\* ---- the runtime-value resolver
\* the flat style of L is the one flattenStyle returned for the state
FlattenedL == scen = "lazy" /\ Idle /\ fn["L"] = "flatten" /\ error = NoError
\* the value the fragment of lower specificity declares
ValueBelow == Lower.style[1].arg

\* the variable is undefined in the fragment variables and in the context
VariableUndefined(name) ==
  /\ name \notin DOMAIN styleMetaMap["L"].variables
  /\ CssVarGet(ContextVariable(name)).result = Undefined

\* C21 as stated: a property whose value is var() of a variable that is
\* undefined in the fragment variables and in the context is left out: it
\* has no getter, and the value a lower fragment wrote stays.
C21_Original ==
  FlattenedL =>
    \A i \in 1 .. Len(styleProp.items) :
      \A j \in 1 .. Len(styleProp.items[i].style) :
        LET p == styleProp.items[i].style[j]
        IN (p.name = "var" /\ VariableUndefined(p.arg)) =>
             /\ p.key \notin DOMAIN getters["L"]
             /\ p.key \in DOMAIN flatStyle["L"] =>
                  flatStyle["L"][p.key] = ValueBelow

\* pct percent of width w, in hundredths
PercentOf(w, pct) == round(w * pct, 100)
IsContainerWidth == scen = "lazy" /\ styleProp.items[1].style[1].name = "cw"

\* C22 as stated: cw(50) without a static width resolves to an accessor
\* while no layout was reported; the accessor, and the property read by a
\* consumer, yield 50% of layoutWidth: 0 before the layout event and 100
\* after the event reported 200.
C22_Original ==
  (IsContainerWidth /\ "left" \in DOMAIN flatStyle["L"]) =>
     /\ (Idle /\ value["layoutWidth"] = 0) => "left" \in DOMAIN getters["L"]
     /\ "left" \in DOMAIN getters["L"] =>
          Invoke(getters["L"]["left"]).val = PercentOf(value["layoutWidth"], 50)
     /\ (lastOp.op = "read" /\ lastOp.key = "left") =>
          lastOp.val = PercentOf(value["layoutWidth"], 50)

\* a runtime function one of whose arguments resolves to a function
HasLazyArgument(p) ==
  /\ p.name = "translateX" /\ HasArguments(p)
  /\ \E k \in 1 .. Len(p.arg) : extractValue(p.arg[k], EmptyFlat).fn
InvokedInFlatten == \E i \in 1 .. Len(trace) : trace[i].e = "invoke"

\* C23: a runtime function with an argument that resolves to a function is
\* itself installed as a getter calling a function; the flatten pass calls
\* none of these functions; a read of the property calls the function and
\* its lazy argument once each.
C23_LazyFunctionIsAccessor ==
  scen = "lazy" =>
    /\ ~InvokedInFlatten
    /\ FlattenedL =>
         \A i \in 1 .. Len(styleProp.items) :
           \A j \in 1 .. Len(styleProp.items[i].style) :
             LET p == styleProp.items[i].style[j]
             IN HasLazyArgument(p) =>
                  /\ p.key \in DOMAIN getters["L"]
                  /\ getters["L"][p.key].op = "runtime"
                  /\ flatStyle["L"][p.key] = Accessor
                  /\ (lastOp.op = "read" /\ lastOp.key = p.key) =>
                       lastOp.calls = 2

\* C23 witness: a consumer has read the property defined from
\* translateX(cw(50)) while no width was known.
C23_Witness ==
  /\ FlattenedL /\ lastOp.op = "read" /\ lastOp.key = "left"
  /\ "left" \in DOMAIN getters["L"]
  /\ getters["L"]["left"].op = "runtime"
  /\ lastOp.calls = 2 /\ lastOp.val = 0

Malformed ==
  \E i \in 1 .. Len(styleProp.items) :
    \E j \in 1 .. Len(styleProp.items[i].style) :
      ~HasArguments(styleProp.items[i].style[j])

\* C24 as stated: flattening a runtime value that has no arguments list
\* never raises; no property is written for it (the lower fragment's value
\* stays) and the properties after it are written.
C24_Original ==
  scen = "lazy" =>
    /\ error = NoError
    /\ (FlattenedL /\ Malformed) =>
         /\ flatStyle["L"]["top"] = ValueBelow
         /\ "left" \in DOMAIN flatStyle["L"]

\* The names of the entries of the transform that resolve to something
\* defined, in input order.
RECURSIVE DefinedEntries(_, _)
DefinedEntries(entries, i) ==
  IF i > Len(entries) THEN << >>
  ELSE LET entry == entries[i]
           e == IF entry.name = "object"
                THEN extractValue(entry.arg, EmptyFlat)
                ELSE extractValue(entry, EmptyFlat)
           name == IF entry.name = "object" THEN entry.key ELSE entry.name
       IN (IF IsUndefined(e) THEN << >> ELSE << name >>)
            \o DefinedEntries(entries, i + 1)
IsTransformList ==
  scen = "lazy" /\ styleProp.items[1].style[1].name = "transform"

\* C28 as stated: the transform of the flat style has one entry for every
\* input entry that resolves to a defined value, in input order.
C28_Original ==
  (IsTransformList /\ FlattenedL) =>
     /\ "transform" \in DOMAIN flatStyle["L"]
     /\ [i \in 1 .. Len(flatStyle["L"]["transform"]) |->
           flatStyle["L"]["transform"][i].key]
          = DefinedEntries(styleProp.items[1].style[1].arg, 1)

\* ---- the tracking stack
\* C35 as stated: every execution restores the tracking stack, whether fn
\* returned or raised: the stack is empty whenever no call is in progress.
C35_Original == Idle => context = << >>

C34_Original ==
  Idle => \A c \in Comps : \A n \in Nodes :
            Has(subscriptions[n], c) <=> n \in dependencies[c]

\* ---- update(fn)
\* C31: update(fn) with the function the Computation already holds does
\* nothing: no execution, no pulse, the same dependencies.  With another
\* function it stores it and executes the Computation exactly once; when
\* the call has returned the dependencies are the Signals the new function
\* read, waiting is 0 and fresh is false.
C31_Update ==
  lastOp.op = "update" =>
    IF lastOp.f = lastOp.was
    THEN /\ Idle /\ trace = << >>
         /\ fn[lastOp.n] = lastOp.was
         /\ dependencies[lastOp.n] = lastOp.deps
    ELSE /\ fn[lastOp.n] = lastOp.f
         /\ ExecCount(lastOp.n) <= 1
         /\ Idle =>
              /\ ExecCount(lastOp.n) = 1
              /\ dependencies[lastOp.n] = Range(RunFn(lastOp.f, lastOp.n).reads)
              /\ waiting[lastOp.n] = 0
              /\ ~fresh[lastOp.n]
\* update(fn) with another function has returned: U now depends on R and S,
\* and its new value re-executed the Computation that reads it.
C31_Witness ==
  /\ lastOp.op = "update" /\ lastOp.was = "idR" /\ lastOp.f = "sumRS"
  /\ Idle
  /\ dependencies["U"] = {"R", "S"}
  /\ ExecCount("V") = 1
\* update(fn) with the function already held has returned, after an
\* earlier update had replaced the function.
C31_SameFunction ==
  /\ lastOp.op = "update" /\ lastOp.was = "sumRS" /\ lastOp.f = "sumRS"
  /\ Idle

\* ---- termination of set()
\* The steps of a call in progress whose functions return.  JavaScript
\* runs a synchronous call to completion: while a call is on the stack its
\* next step is taken, and no client code or queued closure runs in
\* between.
Step ==
  \/ SetStaleUp \/ SetStaleDown \/ SetDefer
  \/ LoopEnd \/ LoopSkip \/ LoopDeliver
  \/ StaleIgnore \/ StalePropagate \/ StaleAccumulate \/ StaleClose
  \/ ExecuteStart \/ ExecuteEnd
\* The clients that are graphs of Signals and Computations: the diamond,
\* the chain, the graph with dynamic dependencies and the Computation that
\* is handed other functions.
TermInit == Init /\ scen \in {"diamond", "dyn", "quiet", "update"}
TermNext ==
  \/ \E c \in DOMAIN PlanOf(scen) : Create(c)
  \/ \E c \in UpdateTargets(scen) : \E f \in UpdateFns : Update(c, f)
  \/ \E s \in SignalsOf(scen) : \E v \in ValsOf(s) : SetCall(s, v)
  \/ RunImmediate
  \/ Step
FairSpec == TermInit /\ [][TermNext]_vars /\ WF_vars(Step)

\* stale deliveries (ignored ones included) and executions of the
\* top-level call in progress
StaleCalls ==
  {i \in 1 .. Len(trace) : trace[i].e \in {"pulse", "ignore"}}
Executions == {i \in 1 .. Len(trace) : trace[i].e = "exec"}
\* Most stale deliveries and most executions one set() causes in the
\* graphs of the clients.
MaxStaleCalls == 18
MaxExecutions == 3

\* C33: every effective top-level set() returns, and until it does it has
\* caused at most MaxStaleCalls stale deliveries and MaxExecutions
\* executions -- also when a Computation that re-executed was added again
\* to the Set being iterated and so was visited a second time by the pulse.
C33_SetTerminates ==
  /\ [](InSet => /\ Cardinality(StaleCalls) <= MaxStaleCalls
                 /\ Cardinality(Executions) <= MaxExecutions)
  /\ ((InSet /\ ~Idle) ~> Idle)
\* An effective set() has returned in which a Computation re-executed on
\* the -1 pulse and the same loop then delivered -1 to it once more.
C33_Witness ==
  /\ InSet /\ Idle
  /\ \E i \in Executions : \E j \in IgnoreEvents :
       /\ i < j
       /\ trace[j].b = trace[i].a
       /\ trace[j].a = lastOp.n
       /\ trace[j].change = -1

\* ---- set on a context variable
\* C37 as stated: set(v) with v not undefined on a context variable Signal
\* raises nothing and stores v, whichever context the Signal belongs to and
\* whatever it has as subscribers.
C37_Original ==
  (lastOp.op = "set" /\ lastOp.n \in VarSignals /\ lastOp.arg # Undefined) =>
    (error = NoError /\ value[lastOp.n] = lastOp.arg)

\* ---- color scheme Signals
\* C38 as stated: setLight(v) changes the light value and leaves the dark
\* one, setDark(v) changes the dark value and leaves the light one, and
\* set(v) writes the value of the scheme that is active.
C38_Original ==
  (lastOp.op = "set" /\ "method" \in DOMAIN lastOp) =>
    IF lastOp.method = "setLight"
         \/ (lastOp.method = "set" /\ lastOp.scheme = "light")
    THEN value["defLight"] = lastOp.arg /\ value["defDark"] = lastOp.dark
    ELSE value["defDark"] = lastOp.arg /\ value["defLight"] = lastOp.light

\* ---- useStyledProps: inline variables and interaction handlers
\* C36 as stated: when a useStyledProps pass has returned, the context's
\* value of the variable is the value the flattened style declares, and
\* undefined when the style declares none.
C36_Original ==
  (lastOp.op = "pass" /\ Idle) =>
    value["childVar"] =
      (IF "--gap" \in DOMAIN lastOp.declared
       THEN lastOp.declared["--gap"] ELSE Undefined)

\* C39 as stated: an installed handler calls the component's handler of
\* its own name, and sets its interaction Signal to true when entering and
\* to false when leaving; only handlers the metadata requires are
\* installed.
C39_Original ==
  (lastOp.op = "set" /\ "handler" \in DOMAIN lastOp) =>
    /\ lastOp.called = << lastOp.handler >>
    /\ value[lastOp.n] = Entering(lastOp.handler)
    /\ Requires(styleMetaMap["F"], lastOp.n)
====
